---- MODULE Spec2Model ----
(***************************************************************************)
(* Model of the DPR scoring and risk-inference pipeline:                   *)
(*   dpr_analyzer.DPRAnalyzer   (analyze_dpr, analyze_section, fallback)   *)
(*   risk_predictor.RiskPredictor (predict_risks, rule-based, fallback)    *)
(*                                                                         *)
(* Number representation.  Python floats that the code rounds to one       *)
(* decimal (overall_score, completeness_percentage, quality scores,        *)
(* probabilities, risk score, readability) are kept in TENTHS: 34.5 is     *)
(* 345.  Section score / completeness / quality are Python ints and are    *)
(* kept as integers.  random.uniform draws are kept in HUNDREDTHS.         *)
(***************************************************************************)
EXTENDS Integers, Sequences, FiniteSets, TLC

VARIABLES
    NLP_AVAILABLE,   \* dpr_analyzer.NLP_AVAILABLE
    punkt_found,     \* the tokenizer data of NLTK is installed
    np_bound,        \* the name np is bound in dpr_analyzer (import numpy ran)
    ML_AVAILABLE,    \* risk_predictor.ML_AVAILABLE
    models,          \* RiskPredictor.models: "trained" or "None"
    classifier,      \* what the fitted classifiers answer on the record at hand
    features,        \* value returned by _extract_features
    fp,              \* binary floating point environment of the run
    text_content,    \* argument of analyze_dpr
    analysis_result, \* value returned by analyze_dpr / argument of predict_risks
    risk_analysis,   \* value returned by predict_risks
    raised,          \* exception that escaped the last call, or "none"
    pc,              \* position of the caller
    recommendations, \* value returned by generate_recommendations
    clock,           \* what datetime.now() reads
    run,             \* "first" or "second" run of the pipeline on the input
    previous,        \* what the first run returned, once it is re-run
    PDF_AVAILABLE,        \* pdf_processor.PDF_AVAILABLE (PyPDF2 imports)
    PDFPLUMBER_AVAILABLE, \* pdf_processor.PDFPLUMBER_AVAILABLE
    DOCX_AVAILABLE,       \* pdf_processor.DOCX_AVAILABLE
    files,           \* the file system: path -> file, for the paths that exist
    filepath,        \* argument of extract_text
    extracted,       \* value returned by extract_text
    db,              \* the SQLite database: the rows of its four tables
    issued,          \* the ids uuid.uuid4() has produced
    stored,          \* history: id -> bundle, for the ids store_analysis returned
    deleted,         \* history: the ids whose deletion was committed
    last,            \* the last call on the database manager and its result
    MODULES_AVAILABLE, \* app.MODULES_AVAILABLE
    response,        \* what upload_file returned: status and JSON body
    instance,        \* the attributes of the DPRAnalyzer and RiskPredictor objects
    np_random,       \* numpy's process-wide generator: the draws made so far
    shared_record,   \* the AnalysisRecord object handed to the running calls
    threads,         \* the frame of the call each thread runs
    called           \* a method called on its own: its arguments and its result

\* what the threads of one process share, and their frames
shared == <<instance, np_random, shared_record, threads>>

\* the state of the database manager
dbVars == <<db, issued, stored, deleted, last>>

\* the state of the file system and of the document store
web == <<PDF_AVAILABLE, PDFPLUMBER_AVAILABLE, DOCX_AVAILABLE, files, filepath, extracted,
         dbVars, MODULES_AVAILABLE, response>>

vars == <<shared, called, NLP_AVAILABLE, punkt_found, np_bound, ML_AVAILABLE, models, classifier, features, fp, text_content,
          analysis_result, risk_analysis, raised, pc, recommendations,
          clock, run, previous, web>>

(***************************************************************************)
(* Bounds of the model.                                                    *)
(***************************************************************************)
MaxRepeat == 7   \* copies of the keyword sentence and of "Budget data"
MaxInfra == 2    \* copies of "Infrastructure risks"
MaxLorem == 3    \* copies of the 2000-word filler paragraph

(***************************************************************************)
(* Small arithmetic helpers.                                               *)
(***************************************************************************)
Min(a, b) == IF a <= b THEN a ELSE b
Max(a, b) == IF a >= b THEN a ELSE b

RECURSIVE SumSeq(_)
SumSeq(s) == IF s = <<>> THEN 0 ELSE Head(s) + SumSeq(Tail(s))

\* Python round(num/den, 0) of a non-negative rational; an exact half is
\* decided by the float that represents it, which fp.tieUp stands for.
RoundDiv(num, den, tieUp) ==
    LET q == num \div den
        r == num % den
    IN  IF 2 * r > den THEN q + 1
        ELSE IF 2 * r < den THEN q
        ELSE IF tieUp THEN q + 1 ELSE q

\* Python None, and a dict lookup with a default
NoneValue == [ none |-> TRUE ]
IsNone(x) == DOMAIN x = {"none"}
Get(d, key, default) == IF key \in DOMAIN d THEN d[key] ELSE default

(***************************************************************************)
(* DPRAnalyzer.__init__: the section catalog.                              *)
(***************************************************************************)
SectionOrder ==
    << "Context/Background", "Problems Addressed", "Project Objectives",
       "Technology Issues", "Management Arrangements", "Means of Finance",
       "Time Frame", "Target Beneficiaries", "Legal Framework",
       "Risk Analysis" >>

Sections == { SectionOrder[i] : i \in 1..Len(SectionOrder) }

\* section_weights with Risk Analysis weighted 10: the weights sum to 105
section_weights_105 ==
    [ s \in Sections |->
        CASE s = "Context/Background" -> 10
          [] s = "Problems Addressed" -> 15
          [] s = "Project Objectives" -> 15
          [] s = "Technology Issues" -> 10
          [] s = "Management Arrangements" -> 10
          [] s = "Means of Finance" -> 15
          [] s = "Time Frame" -> 10
          [] s = "Target Beneficiaries" -> 5
          [] s = "Legal Framework" -> 5
          [] s = "Risk Analysis" -> 10 ]

section_weights ==
    [ s \in Sections |->
        CASE s = "Context/Background" -> 10
          [] s = "Problems Addressed" -> 15
          [] s = "Project Objectives" -> 15
          [] s = "Technology Issues" -> 10
          [] s = "Management Arrangements" -> 10
          [] s = "Means of Finance" -> 15
          [] s = "Time Frame" -> 10
          [] s = "Target Beneficiaries" -> 5
          [] s = "Legal Framework" -> 5
          [] s = "Risk Analysis" -> 5 ]

section_keywords ==
    [ s \in Sections |->
        CASE s = "Context/Background" ->
               <<"context", "background", "policy", "sector", "strategic", "importance">>
          [] s = "Problems Addressed" ->
               <<"problem", "issue", "challenge", "baseline", "gap", "need">>
          [] s = "Project Objectives" ->
               <<"objective", "goal", "target", "deliverable", "outcome", "benefit">>
          [] s = "Technology Issues" ->
               <<"technology", "technical", "system", "infrastructure", "platform">>
          [] s = "Management Arrangements" ->
               <<"management", "organization", "structure", "responsibility", "governance">>
          [] s = "Means of Finance" ->
               <<"finance", "budget", "cost", "funding", "investment", "expenditure">>
          [] s = "Time Frame" ->
               <<"timeline", "schedule", "duration", "phase", "milestone", "completion">>
          [] s = "Target Beneficiaries" ->
               <<"beneficiary", "stakeholder", "community", "user", "participant">>
          [] s = "Legal Framework" ->
               <<"legal", "regulation", "compliance", "approval", "clearance", "law">>
          [] s = "Risk Analysis" ->
               <<"risk", "threat", "vulnerability", "mitigation", "contingency">> ]

quality_indicators ==
    [ s \in Sections |->
        CASE s = "Context/Background" -> <<"policy", "strategic", "alignment", "sector">>
          [] s = "Problems Addressed" -> <<"baseline", "data", "evidence", "statistics">>
          [] s = "Project Objectives" -> <<"specific", "measurable", "achievable", "relevant">>
          [] s = "Technology Issues" -> <<"technical", "feasibility", "specifications", "architecture">>
          [] s = "Management Arrangements" -> <<"organization", "roles", "responsibilities", "monitoring">>
          [] s = "Means of Finance" -> <<"budget", "cost", "estimates", "financial">>
          [] s = "Time Frame" -> <<"timeline", "milestones", "schedule", "phases">>
          [] s = "Target Beneficiaries" -> <<"stakeholders", "beneficiaries", "community", "impact">>
          [] s = "Legal Framework" -> <<"compliance", "regulations", "approvals", "legal">>
          [] s = "Risk Analysis" -> <<"risks", "mitigation", "contingency", "management">> ]

accuracy_indicators ==
    <<"data", "statistics", "survey", "study", "research", "evidence", "source">>

budget_indicators ==
    <<"cost", "budget", "estimate", "financial", "rupees", "crore", "lakh">>

(***************************************************************************)
(* Input texts.  A text is the concatenation, separated by blanks, of      *)
(*   all            copies of "Context problem objective technology        *)
(*                  management finance timeline beneficiary legal risk."   *)
(*   budget         copies of "Budget data"                                *)
(*   infrastructure copies of "Infrastructure risks"                       *)
(*   lorem          copies of a 2000-word paragraph without any term       *)
(* in that order; kind tells a str from a bytes object.                    *)
(***************************************************************************)
Fragments == {"all", "budget", "infrastructure", "lorem"}

\* len(fragment.split())
FragmentWords ==
    [ f \in Fragments |->
        CASE f = "all" -> 10
          [] f = "budget" -> 2
          [] f = "infrastructure" -> 2
          [] f = "lorem" -> 2000 ]

\* fragment.lower().count(term): str.count on the lower-cased fragment
Occ(f, term) ==
    CASE f = "all" ->
           IF term \in {"context", "problem", "objective", "technology",
                        "management", "finance", "timeline", "beneficiary",
                        "legal", "risk"} THEN 1 ELSE 0
      [] f = "budget" -> IF term \in {"budget", "data"} THEN 1 ELSE 0
      [] f = "infrastructure" ->
           IF term \in {"infrastructure", "structure", "risk", "risks"} THEN 1 ELSE 0
      [] f = "lorem" -> 0

\* text_lower.count(term)
Count(text, term) ==
    text.all * Occ("all", term) + text.budget * Occ("budget", term)
      + text.infrastructure * Occ("infrastructure", term)
      + text.lorem * Occ("lorem", term)

\* sum(text_lower.count(t) for t in terms)
RECURSIVE CountAll(_, _)
CountAll(text, terms) ==
    IF terms = <<>> THEN 0
    ELSE Count(text, Head(terms)) + CountAll(text, Tail(terms))

\* len(text_content.split())
WordCount(text) ==
    text.all * FragmentWords["all"] + text.budget * FragmentWords["budget"]
      + text.infrastructure * FragmentWords["infrastructure"]
      + text.lorem * FragmentWords["lorem"]

\* len(re.split(r'[.!?]+', text_content)): one piece more than the runs of
\* terminators; only the keyword sentence ends in one.
SentenceCount(text) == text.all + 1

(***************************************************************************)
(* DPRAnalyzer.analyze_section and its helpers.                            *)
(***************************************************************************)
\* TierScore with the first tier entered above 5 instead of from 5 on
TierScore_gt(keyword_count) ==
    IF keyword_count > 5 THEN Min(90, 60 + keyword_count * 3)
    ELSE IF keyword_count >= 2 THEN 50 + keyword_count * 8
    ELSE Max(30, keyword_count * 15)

\* TierScore without the floor of the lowest tier
TierScore_floorless(keyword_count) ==
    IF keyword_count >= 5 THEN Min(90, 60 + keyword_count * 3)
    ELSE IF keyword_count >= 2 THEN 50 + keyword_count * 8
    ELSE keyword_count * 15

\* the score of the three keyword_count tiers
TierScore(keyword_count) ==
    IF keyword_count >= 5 THEN Min(90, 60 + keyword_count * 3)
    ELSE IF keyword_count >= 2 THEN 50 + keyword_count * 8
    ELSE Max(30, keyword_count * 15)

\* the completeness of the three keyword_count tiers
TierCompleteness(keyword_count) ==
    IF keyword_count >= 5 THEN Min(95, 70 + keyword_count * 2)
    ELSE IF keyword_count >= 2 THEN 50 + keyword_count * 10
    ELSE Max(20, keyword_count * 20)

assess_section_quality(text, section_name) ==
    Min(100, 50 + CountAll(text, quality_indicators[section_name]) * 10)

\* identify_section_issues with the first threshold met from 50 down
identify_section_issues_le(section_name, score, completeness) ==
    (IF score <= 50 THEN << <<"Low content quality in", section_name>> >> ELSE <<>>)
    \o (IF completeness < 60
        THEN << <<"Incomplete coverage of requirements", section_name>> >> ELSE <<>>)
    \o (IF section_name = "Risk Analysis" /\ score < 70
        THEN << <<"Insufficient risk identification and mitigation strategies",
                  section_name>> >> ELSE <<>>)
    \o (IF section_name = "Means of Finance" /\ score < 70
        THEN << <<"Budget details and cost estimates need improvement",
                  section_name>> >> ELSE <<>>)

\* an issue or a piece of advice is the pair <<sentence, section it names>>
identify_section_issues(section_name, score, completeness) ==
    (IF score < 50 THEN << <<"Low content quality in", section_name>> >> ELSE <<>>)
    \o (IF completeness < 60
        THEN << <<"Incomplete coverage of requirements", section_name>> >> ELSE <<>>)
    \o (IF section_name = "Risk Analysis" /\ score < 70
        THEN << <<"Insufficient risk identification and mitigation strategies",
                  section_name>> >> ELSE <<>>)
    \o (IF section_name = "Means of Finance" /\ score < 70
        THEN << <<"Budget details and cost estimates need improvement",
                  section_name>> >> ELSE <<>>)

generate_section_recommendations(section_name, score) ==
    IF score < 75 THEN << <<"section_advice", section_name>> >> ELSE <<>>

\* analyze_section with the caps of the first tier and of the result left out
analyze_section_uncapped(text, section_name) ==
    LET keyword_count == CountAll(text, section_keywords[section_name])
        score == IF keyword_count >= 5 THEN 60 + keyword_count * 3
                 ELSE TierScore(keyword_count)
        completeness == TierCompleteness(keyword_count)
        quality == assess_section_quality(text, section_name)
    IN  [ score |-> score,
          completeness |-> completeness,
          quality |-> quality,
          keyword_matches |-> keyword_count,
          issues |-> identify_section_issues(section_name, score, completeness),
          recommendations |-> generate_section_recommendations(section_name, score) ]

analyze_section(text, section_name) ==
    LET keyword_count == CountAll(text, section_keywords[section_name])
        score == TierScore(keyword_count)
        completeness == TierCompleteness(keyword_count)
        quality == assess_section_quality(text, section_name)
    IN  [ score |-> Min(100, score),
          completeness |-> Min(100, completeness),
          quality |-> Min(100, quality),
          keyword_matches |-> keyword_count,
          issues |-> identify_section_issues(section_name, score, completeness),
          recommendations |-> generate_section_recommendations(section_name, score) ]

(***************************************************************************)
(* DPRAnalyzer.analyze_dpr, primary path.                                  *)
(***************************************************************************)
FileName == "dpr.txt"

\* sum of score * weight over the catalog, in hundredths of a point
RECURSIVE WeightedTotal(_, _)
WeightedTotal(order, section_analyses) ==
    IF order = <<>> THEN 0
    ELSE section_analyses[Head(order)].score * section_weights[Head(order)]
         + WeightedTotal(Tail(order), section_analyses)

\* round(total_weighted_score, 1), in tenths
OverallScore(section_analyses, tieUp) ==
    RoundDiv(WeightedTotal(SectionOrder, section_analyses), 10, tieUp)

SectionsFound(section_analyses) ==
    Cardinality({ s \in DOMAIN section_analyses : section_analyses[s].completeness > 30 })

\* round(sections_found / len(section_weights) * 100, 1), in tenths
CompletenessPercentage(sections_found, tieUp) ==
    RoundDiv(sections_found * 1000, Cardinality(Sections), tieUp)

assess_data_accuracy(text) == Min(100, 40 + CountAll(text, accuracy_indicators) * 8)

\* assess_technical_viability without the 10 points it adds
assess_technical_viability_plain(section_analyses) ==
    LET tech_score == IF "Technology Issues" \in DOMAIN section_analyses
                      THEN section_analyses["Technology Issues"].score ELSE 50
    IN  Min(100, tech_score)

assess_technical_viability(section_analyses) ==
    LET tech_score == IF "Technology Issues" \in DOMAIN section_analyses
                      THEN section_analyses["Technology Issues"].score ELSE 50
    IN  Min(100, tech_score + 10)

\* round(compliance_ratio * 100, 1), in tenths
assess_compliance(section_analyses, tieUp) ==
    RoundDiv(Cardinality({ s \in DOMAIN section_analyses :
                             section_analyses[s].completeness > 40 }) * 1000,
             Cardinality(Sections), tieUp)

assess_budget_realism(text) == Min(100, 30 + CountAll(text, budget_indicators) * 12)

RECURSIVE CompletenessTotal(_, _)
CompletenessTotal(order, section_analyses) ==
    IF order = <<>> THEN 0
    ELSE section_analyses[Head(order)].completeness
         + CompletenessTotal(Tail(order), section_analyses)

\* all five values in tenths
calculate_quality_scores(text, section_analyses, tieUp) ==
    [ data_accuracy |-> assess_data_accuracy(text) * 10,
      completeness |-> RoundDiv(CompletenessTotal(SectionOrder, section_analyses) * 10,
                                Len(SectionOrder), tieUp),
      technical_viability |-> assess_technical_viability(section_analyses) * 10,
      compliance |-> assess_compliance(section_analyses, tieUp),
      budget_realism |-> assess_budget_realism(text) * 10 ]

\* TextBlob: the keyword sentences are sentences of their own, whatever
\* follows them is one more; words are the blank-separated tokens.
BlobSentences(text) ==
    text.all + (IF text.budget + text.infrastructure + text.lorem > 0 THEN 1 ELSE 0)
BlobWords(text) == WordCount(text)

\* blob.sentences raises MissingCorpusError where the tokenizer data was
\* neither found nor downloaded at import (lines 22-31)
BlobRaises == ~punkt_found

calculate_readability_70(text) ==
    IF ~NLP_AVAILABLE \/ BlobRaises THEN 700
    ELSE LET sentences == BlobSentences(text)
             words == BlobWords(text)
         IN  IF sentences = 0 THEN 700
             ELSE IF words < 15 * sentences THEN 900
             ELSE IF words < 20 * sentences THEN 750
             ELSE IF words < 25 * sentences THEN 600
             ELSE 450

calculate_readability(text) ==
    IF ~NLP_AVAILABLE THEN 700
    ELSE IF BlobRaises THEN 700
    ELSE LET sentences == BlobSentences(text)
             words == BlobWords(text)
         IN  IF sentences = 0 THEN 500
             ELSE IF words < 15 * sentences THEN 900
             ELSE IF words < 20 * sentences THEN 750
             ELSE IF words < 25 * sentences THEN 600
             ELSE 450

\* lines 93-112: the record built from the section results of the loop
AssembleRecord(text, filename, section_analyses, tieUp) ==
    LET sections_found == SectionsFound(section_analyses)
    IN  [ filename |-> filename,
          analyzed_at |-> "now",
          overall_score |-> OverallScore(section_analyses, tieUp),
          completeness_percentage |-> CompletenessPercentage(sections_found, tieUp),
          sections_found |-> sections_found,
          total_sections |-> Cardinality(Sections),
          section_analyses |-> section_analyses,
          quality_scores |-> calculate_quality_scores(text, section_analyses, tieUp),
          document_stats |->
              [ word_count |-> WordCount(text),
                sentence_count |-> SentenceCount(text),
                readability |-> IF NLP_AVAILABLE THEN calculate_readability(text)
                                ELSE 700 ] ]

PrimaryAnalysis(text, filename, tieUp) ==
    AssembleRecord(text, filename, [ s \in Sections |-> analyze_section(text, s) ], tieUp)

(***************************************************************************)
(* DPRAnalyzer.generate_fallback_analysis.                                 *)
(***************************************************************************)
\* np.random.randint(low, high): any integer of [low, high)
RandInt(low, high) == low .. (high - 1)

BaseScore(word_count) == Min(85, Max(45, 40 + (word_count \div 100)))

\* jitter[s] holds the three draws made for section s
generate_fallback_analysis(filename, text, jitter) ==
    LET word_count == WordCount(text)
        base_score == BaseScore(word_count)
    IN  [ filename |-> filename,
          analyzed_at |-> "now",
          overall_score |-> base_score * 10,
          completeness_percentage |-> 750,
          sections_found |-> 8,
          total_sections |-> 10,
          section_analyses |->
              [ s \in Sections |->
                  [ score |-> base_score + jitter[s].score,
                    completeness |-> base_score + jitter[s].completeness,
                    quality |-> base_score + jitter[s].quality,
                    issues |-> <<>>,
                    recommendations |-> <<>> ] ],
          quality_scores |->
              [ data_accuracy |-> base_score * 10,
                completeness |-> 750,
                technical_viability |-> (base_score - 5) * 10,
                compliance |-> 800,
                budget_realism |-> (base_score - 10) * 10 ],
          document_stats |->
              [ word_count |-> word_count,
                sentence_count |-> Max(10, word_count \div 20),
                readability |-> 700 ] ]

(***************************************************************************)
(* DPRAnalyzer.generate_recommendations.                                   *)
(***************************************************************************)
\* dict.items(): insertion order, which analyze_dpr and the fallback make
\* the catalog order
ItemsOrder(section_analyses) ==
    LET Present(s) == s \in DOMAIN section_analyses
    IN  SelectSeq(SectionOrder, Present)

\* the list comprehension of line 306: names whose score is below 65
LowScoring(section_analyses) ==
    LET Low(s) == section_analyses[s].score < 65
    IN  SelectSeq(ItemsOrder(section_analyses), Low)

\* list.sort(key=score) is stable: an entry goes after every earlier entry
\* whose score is not greater
RECURSIVE SortByScore_desc(_, _)
SortByScore_desc(names, section_analyses) ==
    IF names = <<>> THEN <<>>
    ELSE LET n == Len(names)
             s == names[n]
             sorted == SortByScore_desc(SubSeq(names, 1, n - 1), section_analyses)
             k == Cardinality({ i \in 1..Len(sorted) :
                                  section_analyses[sorted[i]].score
                                      >= section_analyses[s].score })
         IN  SubSeq(sorted, 1, k) \o <<s>> \o SubSeq(sorted, k + 1, Len(sorted))

RECURSIVE SortByScore(_, _)
SortByScore(names, section_analyses) ==
    IF names = <<>> THEN <<>>
    ELSE LET n == Len(names)
             s == names[n]
             sorted == SortByScore(SubSeq(names, 1, n - 1), section_analyses)
             k == Cardinality({ i \in 1..Len(sorted) :
                                  section_analyses[sorted[i]].score
                                      <= section_analyses[s].score })
         IN  SubSeq(sorted, 1, k) \o <<s>> \o SubSeq(sorted, k + 1, Len(sorted))

\* a slice list[:n]
Take(s, n) == SubSeq(s, 1, Min(n, Len(s)))

SectionPriority_le(score) == IF score <= 50 THEN "High" ELSE "Medium"
SectionPriority(score) == IF score < 50 THEN "High" ELSE "Medium"

\* line 306 reads data['score'] of every section result of the record
RecommendationsRaise(analysis) ==
    \/ IsNone(analysis)
    \/ LET section_analyses == Get(analysis, "section_analyses", <<>>)
       IN  \/ IsNone(section_analyses)
           \/ \E s \in DOMAIN section_analyses :
                "score" \notin DOMAIN section_analyses[s]

\* lines 313-336: the recommendations appended once the list is sorted
BuildRecommendations(analysis, low_scoring_sections) ==
    LET section_analyses == Get(analysis, "section_analyses", <<>>)
        overall_score == Get(analysis, "overall_score", 0)
        top == Take(low_scoring_sections, 3)
        tech_section == Get(section_analyses, "Technology Issues", <<>>)
        by_section ==
            [ i \in 1..Len(top) |->
                [ priority |-> SectionPriority(section_analyses[top[i]].score),
                  category |-> top[i],
                  recommendation |-> <<"improve_section", top[i]>> ] ]
        overall ==
            IF overall_score < 700
            THEN << [ priority |-> "High", category |-> "Overall Quality",
                      recommendation |-> <<"comprehensive_review">> ] >>
            ELSE <<>>
        technical ==
            IF Get(tech_section, "score", 0) < 70
            THEN << [ priority |-> "Medium", category |-> "Technical Feasibility",
                      recommendation |-> <<"technical_feasibility_study">> ] >>
            ELSE <<>>
    IN  Take(by_section \o overall \o technical, 5)

generate_recommendations(analysis) ==
    LET section_analyses == Get(analysis, "section_analyses", <<>>)
    IN  BuildRecommendations(analysis,
                             SortByScore(LowScoring(section_analyses), section_analyses))

(***************************************************************************)
(* RiskPredictor.__init__: the risk catalog.                               *)
(***************************************************************************)
risk_categories ==
    << "Budget Overrun Risk", "Timeline Delay Risk",
       "Technical Implementation Risk", "Compliance Risk",
       "Resource Availability Risk" >>

RiskCategories == { risk_categories[i] : i \in 1..Len(risk_categories) }

\* what _train_risk_models stores per category: a dict, not an estimator
TrainedModel == [ model |-> "GradientBoostingClassifier", scaler |-> "StandardScaler" ]

(***************************************************************************)
(* RiskPredictor._rule_based_risk.                                         *)
(***************************************************************************)
\* the section whose score drives a category
DriverSection(risk_category) ==
    CASE risk_category = "Budget Overrun Risk" -> "Means of Finance"
      [] risk_category = "Timeline Delay Risk" -> "Time Frame"
      [] risk_category = "Technical Implementation Risk" -> "Technology Issues"
      [] risk_category = "Compliance Risk" -> "Legal Framework"
      [] risk_category = "Resource Availability Risk" -> "Management Arrangements"

\* DriverWeight with the factors of Timeline and Technical swapped
DriverWeight_swapped(risk_category) ==
    CASE risk_category = "Budget Overrun Risk" -> 5
      [] risk_category = "Timeline Delay Risk" -> 7
      [] risk_category = "Technical Implementation Risk" -> 6
      [] risk_category = "Compliance Risk" -> 4
      [] risk_category = "Resource Availability Risk" -> 5

\* the factor applied to the driver's deficit, in tenths
DriverWeight(risk_category) ==
    CASE risk_category = "Budget Overrun Risk" -> 5
      [] risk_category = "Timeline Delay Risk" -> 6
      [] risk_category = "Technical Implementation Risk" -> 7
      [] risk_category = "Compliance Risk" -> 4
      [] risk_category = "Resource Availability Risk" -> 5

\* the score assumed when the driver section has none
DriverDefault(risk_category) ==
    CASE risk_category = "Budget Overrun Risk" -> 70
      [] risk_category = "Timeline Delay Risk" -> 70
      [] risk_category = "Technical Implementation Risk" -> 70
      [] risk_category = "Compliance Risk" -> 80
      [] risk_category = "Resource Availability Risk" -> 75

\* the if/elif/else on a probability of num/scale percent.  below: the
\* float that carries a sum whose exact value is a threshold lies under it
\* (100 - 65.9 + (100 - 63) * 0.7 is 59.99999999999999).
RiskLevel(num, scale, below) ==
    IF num > 60 * scale \/ (num = 60 * scale /\ ~below) THEN "High"
    ELSE IF num > 40 * scale \/ (num = 40 * scale /\ ~below) THEN "Medium"
    ELSE "Low"

\* the sum before it is clamped, in tenths
RuleProbability(risk_category, analysis) ==
    LET section_analyses == Get(analysis, "section_analyses", [ x \in {} |-> x ])
        overall_score == Get(analysis, "overall_score", 750)
        base_probability == Max(0, 1000 - overall_score)
        driver == DriverSection(risk_category)
        driver_score == IF driver \in DOMAIN section_analyses
                        THEN Get(section_analyses[driver], "score",
                                 DriverDefault(risk_category))
                        ELSE DriverDefault(risk_category)
    IN  base_probability + (100 - driver_score) * DriverWeight(risk_category)

Clamp(probability) == Min(850, Max(150, probability))

\* the float sum can miss its exact value only if both terms are inexact:
\* overall_score is not a whole number and the factor is not 0.5
Inexact(risk_category, analysis) ==
    /\ Get(analysis, "overall_score", 750) % 10 # 0
    /\ DriverWeight(risk_category) # 5

_identify_risk_factors(risk_category) ==
    SubSeq(<< <<"factor", risk_category, 1>>, <<"factor", risk_category, 2>>,
              <<"factor", risk_category, 3>>, <<"factor", risk_category, 4>> >>, 1, 3)

_get_mitigation_suggestions(risk_category) ==
    SubSeq(<< <<"mitigation", risk_category, 1>>, <<"mitigation", risk_category, 2>>,
              <<"mitigation", risk_category, 3>>, <<"mitigation", risk_category, 4>> >>, 1, 3)

_rule_based_risk(risk_category, analysis, below) ==
    LET probability == Clamp(RuleProbability(risk_category, analysis))
        level == RiskLevel(probability, 10, below /\ Inexact(risk_category, analysis))
    IN  [ probability |-> probability,
          level |-> level,
          severity |-> level,
          primary_factors |-> _identify_risk_factors(risk_category),
          mitigation_suggestions |-> _get_mitigation_suggestions(risk_category) ]

_predict_with_rules(analysis, below) ==
    [ c \in RiskCategories |-> _rule_based_risk(c, analysis, below) ]

(***************************************************************************)
(* RiskPredictor._extract_features.  A feature is a score divided by 100;  *)
(* it is kept in THOUSANDTHS: 0.345 is 345.  A score kept in tenths gives  *)
(* its own number, a whole section score gives ten times its number.       *)
(***************************************************************************)
\* the section names of lines 210-212 and the quality names of lines 217-218
FeatureSections ==
    << "Context/Background", "Problems Addressed", "Project Objectives",
       "Technology Issues", "Management Arrangements", "Means of Finance",
       "Time Frame", "Target Beneficiaries", "Legal Framework", "Risk Analysis" >>
FeatureQualities ==
    << "data_accuracy", "completeness", "technical_viability", "compliance",
       "budget_realism" >>

\* .get on a None (the record, its section_analyses, its quality_scores or
\* the entry of a section) is an AttributeError
FeaturesRaise(analysis) ==
    \/ IsNone(analysis)
    \/ IsNone(Get(analysis, "section_analyses", <<>>))
    \/ IsNone(Get(analysis, "quality_scores", <<>>))
    \/ \E i \in 1..Len(FeatureSections) :
          IsNone(Get(Get(analysis, "section_analyses", <<>>), FeatureSections[i], <<>>))

_extract_features_percent(analysis) ==
    LET section_analyses == Get(analysis, "section_analyses", <<>>)
        quality_scores == Get(analysis, "quality_scores", <<>>)
    IN  << Get(analysis, "overall_score", 750),
           Get(analysis, "completeness_percentage", 800) >>
        \o [ i \in 1..Len(FeatureSections) |->
               10 * Get(Get(section_analyses, FeatureSections[i], <<>>), "score", 70) ]
        \o [ i \in 1..Len(FeatureQualities) |->
               100 * Get(quality_scores, FeatureQualities[i], 700) ]

_extract_features(analysis) ==
    LET section_analyses == Get(analysis, "section_analyses", <<>>)
        quality_scores == Get(analysis, "quality_scores", <<>>)
    IN  << Get(analysis, "overall_score", 750),
           Get(analysis, "completeness_percentage", 800) >>
        \o [ i \in 1..Len(FeatureSections) |->
               10 * Get(Get(section_analyses, FeatureSections[i], <<>>), "score", 70) ]
        \o [ i \in 1..Len(FeatureQualities) |->
               Get(quality_scores, FeatureQualities[i], 700) ]

(***************************************************************************)
(* RiskPredictor._predict_with_ml.  proba[c] is what the classifier of c   *)
(* would answer, in hundredths of a percent.                               *)
(***************************************************************************)
\* model.predict_proba exists only if the stored object is an estimator
HasPredictProba(model) == "predict_proba" \in DOMAIN model

MlRisk(risk_category, proba, tieUp) ==
    LET level == RiskLevel(proba[risk_category], 100, FALSE)
    IN  [ probability |-> RoundDiv(proba[risk_category], 10, tieUp),
          level |-> level,
          severity |-> level,
          primary_factors |-> _identify_risk_factors(risk_category),
          mitigation_suggestions |-> _get_mitigation_suggestions(risk_category) ]

_predict_with_ml(analysis, proba, env) ==
    [ c \in RiskCategories |->
        IF HasPredictProba(TrainedModel)
        THEN MlRisk(c, proba, env.tieUp)
        ELSE _rule_based_risk(c, analysis, env.below) ]

(***************************************************************************)
(* RiskPredictor._calculate_overall_risk, _generate_risk_summary.          *)
(***************************************************************************)
CountLevel(risk_predictions, level) ==
    Cardinality({ c \in DOMAIN risk_predictions : risk_predictions[c].level = level })

\* _calculate_overall_risk with the High threshold compared strictly at 2.6
_calculate_overall_risk_strict(risk_predictions) ==
    LET high_risk_count == CountLevel(risk_predictions, "High")
        medium_risk_count == CountLevel(risk_predictions, "Medium")
        low_risk_count == CountLevel(risk_predictions, "Low")
        total_risks == Cardinality(DOMAIN risk_predictions)
        weighted == high_risk_count * 3 + medium_risk_count * 2 + low_risk_count
    IN  IF total_risks = 0 THEN [ level |-> "Medium", score |-> 500 ]
        ELSE [ level |-> IF 10 * weighted > 26 * total_risks THEN "High"
                         ELSE IF 2 * weighted >= 3 * total_risks THEN "Medium"
                         ELSE "Low",
               score |-> RoundDiv(weighted * 1000, 3 * total_risks, FALSE),
               high_risk_count |-> high_risk_count,
               medium_risk_count |-> medium_risk_count,
               low_risk_count |-> low_risk_count ]

_calculate_overall_risk(risk_predictions) ==
    LET high_risk_count == CountLevel(risk_predictions, "High")
        medium_risk_count == CountLevel(risk_predictions, "Medium")
        low_risk_count == CountLevel(risk_predictions, "Low")
        total_risks == Cardinality(DOMAIN risk_predictions)
        \* weighted_score * total_risks
        weighted == high_risk_count * 3 + medium_risk_count * 2 + low_risk_count
    IN  IF total_risks = 0 THEN [ level |-> "Medium", score |-> 500 ]
        ELSE [ level |-> IF 2 * weighted >= 5 * total_risks THEN "High"
                         ELSE IF 2 * weighted >= 3 * total_risks THEN "Medium"
                         ELSE "Low",
               score |-> RoundDiv(weighted * 1000, 3 * total_risks, FALSE),
               high_risk_count |-> high_risk_count,
               medium_risk_count |-> medium_risk_count,
               low_risk_count |-> low_risk_count ]

\* the High categories in catalog order
RECURSIVE HighRisks(_, _)
HighRisks(order, risk_predictions) ==
    IF order = <<>> THEN <<>>
    ELSE (IF risk_predictions[Head(order)].level = "High" THEN <<Head(order)>> ELSE <<>>)
         \o HighRisks(Tail(order), risk_predictions)

\* _generate_risk_summary that looks at the overall level before the High list
_generate_risk_summary_overall(risk_predictions, overall_risk) ==
    LET high_risks == HighRisks(risk_categories, risk_predictions)
    IN  IF overall_risk.level = "Medium"
        THEN [ text |-> "Medium priority risks identified", names |-> <<>> ]
        ELSE IF high_risks # <<>> THEN [ text |-> "High priority risks identified in",
                                         names |-> high_risks ]
        ELSE [ text |-> "Low risk project profile", names |-> <<>> ]

_generate_risk_summary(risk_predictions, overall_risk) ==
    LET high_risks == HighRisks(risk_categories, risk_predictions)
    IN  IF high_risks # <<>> THEN [ text |-> "High priority risks identified in",
                                    names |-> high_risks ]
        ELSE IF overall_risk.level = "Medium"
        THEN [ text |-> "Medium priority risks identified", names |-> <<>> ]
        ELSE [ text |-> "Low risk project profile", names |-> <<>> ]

(***************************************************************************)
(* RiskPredictor._generate_fallback_risks.  draws[c] is the value of       *)
(* random.uniform(25, 75) for category c, in hundredths.                   *)
(***************************************************************************)
_generate_fallback_risks(draws, tieUp) ==
    [ overall_risk |-> [ level |-> "Medium", score |-> 500, high_risk_count |-> 1,
                         medium_risk_count |-> 3, low_risk_count |-> 1 ],
      risk_predictions |->
          [ c \in RiskCategories |->
              LET level == RiskLevel(draws[c], 100, FALSE)
              IN  [ probability |-> RoundDiv(draws[c], 10, tieUp),
                    level |-> level,
                    severity |-> level,
                    primary_factors |->
                        << "Analysis module error - using fallback assessment" >>,
                    mitigation_suggestions |->
                        << "Conduct detailed risk assessment manually" >> ] ],
      risk_summary |-> [ text |-> "Fallback risk assessment - manual review recommended",
                         names |-> <<>> ],
      generated_at |-> "now" ]

(***************************************************************************)
(* RiskPredictor.predict_risks.                                            *)
(***************************************************************************)
\* the try block raises: analysis_result.get on None is an AttributeError,
\* and so is section_analyses.get when the record holds a None there
PredictionRaises(analysis) ==
    \/ IsNone(analysis)
    \/ ("section_analyses" \in DOMAIN analysis /\ IsNone(analysis.section_analyses))

PredictedBundle(risk_predictions) ==
    LET overall_risk == _calculate_overall_risk(risk_predictions)
    IN  [ overall_risk |-> overall_risk,
          risk_predictions |-> risk_predictions,
          risk_summary |-> _generate_risk_summary(risk_predictions, overall_risk),
          generated_at |-> "now" ]

predict_risks(analysis, ml_available, trained, proba, draws, env) ==
    IF PredictionRaises(analysis) THEN _generate_fallback_risks(draws, env.tieUp)
    ELSE IF ml_available /\ trained
         THEN PredictedBundle(_predict_with_ml(analysis, proba, env))
         ELSE PredictedBundle(_predict_with_rules(analysis, env.below))

(***************************************************************************)
(* The environment: which libraries import, and the inputs.                *)
(***************************************************************************)
Libraries == {"nltk", "textblob", "numpy", "sklearn", "pandas"}

\* dpr_analyzer imports nltk, textblob, numpy, sklearn in this order inside
\* one try: NLP_AVAILABLE needs all four, the name np needs the first three
NlpAvailable(libs) == {"nltk", "textblob", "numpy", "sklearn"} \subseteq libs
NpBound(libs) == {"nltk", "textblob", "numpy"} \subseteq libs
\* risk_predictor imports numpy, pandas, sklearn
MlAvailable(libs) == {"numpy", "pandas", "sklearn"} \subseteq libs

\* the flags the two modules end up with, over every set of importable libraries
ImportOutcomes ==
    { <<NlpAvailable(libs), NpBound(libs), MlAvailable(libs)>> : libs \in SUBSET Libraries }

FloatEnvs == [ tieUp : BOOLEAN, below : BOOLEAN ]

\* str inputs; a bytes input is filler only
StrTexts ==
    [ kind : {"str"}, all : 0..MaxRepeat, budget : 0..MaxRepeat,
      infrastructure : 0..MaxInfra, lorem : 0..MaxLorem ]
BytesTexts ==
    [ kind : {"bytes"}, all : {0}, budget : {0}, infrastructure : {0},
      lorem : 0..MaxLorem ]
Texts == StrTexts \cup BytesTexts
EmptyText == [ kind |-> "str", all |-> 0, budget |-> 0, infrastructure |-> 0, lorem |-> 0 ]

\* the draws the fallback analysis is explored with: the two ends of each
\* randint range; one section draws any mix of ends, the nine others draw
\* the three least or the three greatest values
Least(S) == CHOOSE x \in S : \A y \in S : x <= y
Greatest(S) == CHOOSE x \in S : \A y \in S : x >= y
Ends(S) == { Least(S), Greatest(S) }
JitterDraws ==
    [ score : Ends(RandInt(-15, 16)), completeness : Ends(RandInt(-10, 21)),
      quality : Ends(RandInt(-12, 13)) ]
JitterCommon ==
    { [ score |-> Least(RandInt(-15, 16)), completeness |-> Least(RandInt(-10, 21)),
        quality |-> Least(RandInt(-12, 13)) ],
      [ score |-> Greatest(RandInt(-15, 16)), completeness |-> Greatest(RandInt(-10, 21)),
        quality |-> Greatest(RandInt(-12, 13)) ] }
Jitters ==
    { [ s \in Sections |-> IF s = d THEN a ELSE b ] :
        d \in Sections, a \in JitterDraws, b \in JitterCommon }

\* random.uniform(25, 75), in hundredths: both ends and values next to the
\* level thresholds
UniformSamples_wide == {2500, 3996, 4000, 5996, 9500}
UniformSamples == {2500, 3996, 4000, 5996, 7500}
\* classifier outputs, in hundredths of a percent
ProbaSamples == {3996, 5996}

\* the random source is consulted by the fallback bundle only
DrawChoices(analysis) ==
    IF PredictionRaises(analysis) THEN [ RiskCategories -> UniformSamples ]
    ELSE { [ c \in RiskCategories |-> 2500 ] }
\* the positive-class probability the classifiers fitted at construction
\* give on the feature vector of the record at hand, per category; there
\* are classifiers only where the models were trained
ProbaChoices(ml_available, trained) ==
    IF ml_available /\ trained
    THEN { [ c \in RiskCategories |-> p ] : p \in ProbaSamples }
    ELSE { NoneValue }

(***************************************************************************)
(* database_manager.DatabaseManager.  A table is the set of its rows; the  *)
(* analyses table, whose primary key is the id, is a function of the id.   *)
(***************************************************************************)
\* json.dumps gives a text, json.loads the value of a text; on dicts with
\* str keys, lists, str, int, float and None the value read back equals the
\* value written
json_dumps(value) == [ json |-> value ]
json_loads(doc) == doc.json

EmptyDict == [ key \in {} |-> NoneValue ]

\* CREATE TABLE IF NOT EXISTS on a new database file
EmptyDb ==
    [ analyses |-> [ id \in {} |-> NoneValue ],
      analysis_sections |-> {},
      analysis_risks |-> {},
      analysis_recommendations |-> {} ]

\* the four groups of INSERTs of store_analysis
AnalysesRow(analysis_data, now) ==
    LET file_info == Get(analysis_data, "file_info", EmptyDict)
        analysis == Get(analysis_data, "analysis", EmptyDict)
        risks == Get(analysis_data, "risks", EmptyDict)
    IN  [ filename |-> Get(file_info, "filename", "Unknown"),
          analyzed_at |-> now,
          overall_score |-> Get(analysis, "overall_score", 0),
          risk_level |-> Get(Get(risks, "overall_risk", EmptyDict), "level", "Unknown"),
          completeness_percentage |-> Get(analysis, "completeness_percentage", 0),
          analysis_data |-> json_dumps(analysis_data) ]

SectionRows(analysis_id, analysis_data) ==
    LET section_analyses ==
            Get(Get(analysis_data, "analysis", EmptyDict), "section_analyses", EmptyDict)
    IN  { [ analysis_id |-> analysis_id, section_name |-> s,
            score |-> Get(section_analyses[s], "score", 0),
            completeness |-> Get(section_analyses[s], "completeness", 0),
            quality |-> Get(section_analyses[s], "quality", 0) ] :
          s \in DOMAIN section_analyses }

RiskRows(analysis_id, analysis_data) ==
    LET risk_predictions ==
            Get(Get(analysis_data, "risks", EmptyDict), "risk_predictions", EmptyDict)
    IN  { [ analysis_id |-> analysis_id, risk_category |-> c,
            probability |-> Get(risk_predictions[c], "probability", 0),
            risk_level |-> Get(risk_predictions[c], "level", "Unknown"),
            severity |-> Get(risk_predictions[c], "severity", "Unknown") ] :
          c \in DOMAIN risk_predictions }

RecommendationRows(analysis_id, analysis_data) ==
    LET recs == Get(analysis_data, "recommendations", <<>>)
    IN  { [ analysis_id |-> analysis_id, row |-> i,
            priority |-> Get(recs[i], "priority", "Medium"),
            category |-> Get(recs[i], "category", "General") ] :
          i \in 1..Len(recs) }

\* the database after the commit of store_analysis
Inserted(database, analysis_id, analysis_data, now) ==
    [ analyses |->
          [ id \in DOMAIN database.analyses \cup {analysis_id} |->
              IF id = analysis_id THEN AnalysesRow(analysis_data, now)
              ELSE database.analyses[id] ],
      analysis_sections |->
          database.analysis_sections \cup SectionRows(analysis_id, analysis_data),
      analysis_risks |->
          database.analysis_risks \cup RiskRows(analysis_id, analysis_data),
      analysis_recommendations |->
          database.analysis_recommendations
              \cup RecommendationRows(analysis_id, analysis_data) ]

\* SELECT analysis_data FROM analyses WHERE id = ?, then json.loads
get_analysis_any(database, analysis_id) ==
    IF database.analyses = EmptyDb.analyses THEN NoneValue
    ELSE json_loads(database.analyses[CHOOSE id \in DOMAIN database.analyses : TRUE]
                        .analysis_data)

get_analysis(database, analysis_id) ==
    IF analysis_id \in DOMAIN database.analyses
    THEN json_loads(database.analyses[analysis_id].analysis_data)
    ELSE NoneValue

\* delete_analysis with the DELETE on analyses alone
Deleted_analyses_only(database, analysis_id) ==
    [ database EXCEPT !.analyses =
          [ id \in DOMAIN database.analyses \ {analysis_id} |-> database.analyses[id] ] ]

\* the database after the commit of delete_analysis
Deleted(database, analysis_id) ==
    [ analyses |->
          [ id \in DOMAIN database.analyses \ {analysis_id} |-> database.analyses[id] ],
      analysis_sections |->
          { r \in database.analysis_sections : r.analysis_id # analysis_id },
      analysis_risks |->
          { r \in database.analysis_risks : r.analysis_id # analysis_id },
      analysis_recommendations |->
          { r \in database.analysis_recommendations : r.analysis_id # analysis_id } ]

\* cleanup_old_analyses, lines 342-343: delete_analysis on each old id, each
\* in a connection and a transaction of its own
RECURSIVE DeleteEach(_, _)
DeleteEach(database, ids) ==
    IF ids = {} THEN database
    ELSE LET analysis_id == CHOOSE id \in ids : TRUE
         IN  DeleteEach(Deleted(database, analysis_id), ids \ {analysis_id})

NoCall == [ op |-> "none" ]

\* a database manager that was just constructed on a new file
DbIdle ==
    /\ db = EmptyDb
    /\ issued = {}
    /\ stored = [ id \in {} |-> NoneValue ]
    /\ deleted = {}
    /\ last = NoCall

(***************************************************************************)
(* pdf_processor.PDFProcessor.  A path is a time stamp and a file name (the *)
(* upload folder holds "<stamp>_<name>"); a file is described by what each *)
(* reader makes of it:                                        *)
(*   text      what the file says, as a text of the model                  *)
(*   readable  open() succeeds (it is no directory, permissions allow)     *)
(*   utf8      the bytes are valid UTF-8 (any bytes are valid latin-1)     *)
(*   plumber   pdfplumber: "text", "blank" (no page has text), "raises",   *)
(*             "raises_late" (raises after pages were read)                *)
(*   pypdf2    PyPDF2: "text", "blank", "raises"                           *)
(*   docx      python-docx: "text", "blank", "raises"                      *)
(***************************************************************************)
FileNames == {"dpr.txt", "DPR.TXT", "dpr.pdf", "dpr.docx", "dpr.doc", "dpr.png"}

Path(stamp, name) == <<stamp, name>>

\* os.path.splitext(filepath.lower())[1]
Ext(path) ==
    CASE path[2] \in {"dpr.txt", "DPR.TXT"} -> ".txt"
      [] path[2] = "dpr.pdf" -> ".pdf"
      [] path[2] = "dpr.docx" -> ".docx"
      [] path[2] = "dpr.doc" -> ".doc"
      [] OTHER -> ".png"

\* what extract_text returns: the canonical sample document or text of the file
SampleDocument == [ doc |-> "sample" ]
FromFile(text) == [ doc |-> "file", text |-> text ]

\* text.strip() is empty; the texts of the model hold no blank but between words
Blank(text) == WordCount(text) = 0

\* text + more
Concat(text, more) ==
    [ kind |-> "str", all |-> text.all + more.all, budget |-> text.budget + more.budget,
      infrastructure |-> text.infrastructure + more.infrastructure,
      lorem |-> text.lorem + more.lorem ]

_get_sample_text == SampleDocument

_extract_from_pdf(file) ==
    LET \* text after the pdfplumber block, and whether that block returned
        plumbed == IF PDFPLUMBER_AVAILABLE /\ file.plumber \in {"text", "raises_late"}
                   THEN file.text ELSE EmptyText
        plumber_returns == PDFPLUMBER_AVAILABLE /\ file.plumber = "text" /\ ~Blank(plumbed)
        \* text after the PyPDF2 block
        read == IF file.pypdf2 = "text" THEN Concat(plumbed, file.text) ELSE plumbed
    IN  IF plumber_returns THEN FromFile(plumbed)
        ELSE IF PDF_AVAILABLE /\ file.pypdf2 # "raises" /\ ~Blank(read) THEN FromFile(read)
        ELSE _get_sample_text

_extract_from_docx(file) ==
    IF ~DOCX_AVAILABLE THEN _get_sample_text
    ELSE IF file.docx = "text" /\ ~Blank(file.text) THEN FromFile(file.text)
    ELSE _get_sample_text

\* as _extract_from_txt, were the text returned without the strip() test
_extract_from_txt_unchecked(file) ==
    IF ~file.readable THEN _get_sample_text
    ELSE FromFile(file.text)

\* open() raising lands in the last handler; a UnicodeDecodeError of the
\* UTF-8 read leads to the latin-1 read, which decodes any bytes
_extract_from_txt(file) ==
    IF ~file.readable THEN _get_sample_text
    ELSE IF file.utf8
    THEN IF ~Blank(file.text) THEN FromFile(file.text) ELSE _get_sample_text
    ELSE IF ~Blank(file.text) THEN FromFile(file.text) ELSE _get_sample_text

extract_text(fs, path) ==
    IF path \notin DOMAIN fs THEN _get_sample_text
    ELSE LET file_ext == Ext(path)
         IN  IF file_ext = ".pdf" THEN _extract_from_pdf(fs[path])
             ELSE IF file_ext \in {".docx", ".doc"} THEN _extract_from_docx(fs[path])
             ELSE IF file_ext = ".txt" THEN _extract_from_txt(fs[path])
             ELSE _get_sample_text

\* a file system without files
NoFiles == [ path \in {} |-> EmptyText ]

\* DPRAnalyzer.__init__ and RiskPredictor.__init__: the attributes they set
\* (RiskPredictor.models is the variable models)
Constructed ==
    [ section_weights |-> section_weights,
      section_keywords |-> section_keywords,
      section_order |-> SectionOrder,
      risk_categories |-> risk_categories ]

\* one caller: no thread runs a call of its own
SharedIdle ==
    /\ instance = Constructed
    /\ np_random = 0
    /\ shared_record = NoneValue
    /\ threads = <<>>

\* nothing happened yet outside the analyzer and the predictor
WebIdle ==
    /\ PDF_AVAILABLE = TRUE
    /\ PDFPLUMBER_AVAILABLE = TRUE
    /\ DOCX_AVAILABLE = TRUE
    /\ files = NoFiles
    /\ filepath = Path(0, FileName)
    /\ extracted = NoneValue
    /\ DbIdle
    /\ MODULES_AVAILABLE = TRUE
    /\ response = NoneValue

(***************************************************************************)
(* analyze_dpr as one step of the caller.                                  *)
(***************************************************************************)
\* as PrimaryRaises, were a text without words to raise as well
PrimaryRaises_empty(text) == text.kind = "bytes" \/ ~np_bound \/ WordCount(text) = 0
\* line 75: re.split with a str pattern on bytes is a TypeError;
\* line 224: np.mean is a NameError when numpy was never imported
PrimaryRaises(text) == text.kind = "bytes" \/ ~np_bound
\* line 350: np.random is a NameError when numpy was never imported
FallbackRaises == ~np_bound

\* lines 100 and 359: analyzed_at is datetime.now().isoformat() at the call
Stamp(record, now) == [ record EXCEPT !.analyzed_at = now ]

AnalyzeDpr ==
    /\ pc = "start"
    /\ IF ~PrimaryRaises(text_content)
       THEN /\ analysis_result' = Stamp(PrimaryAnalysis(text_content, FileName, fp.tieUp),
                                        clock)
            /\ raised' = "none"
            /\ pc' = "analyzed"
       ELSE IF ~FallbackRaises
       THEN /\ \E jitter \in Jitters :
                 analysis_result' =
                     Stamp(generate_fallback_analysis(FileName, text_content, jitter), clock)
            /\ raised' = "none"
            /\ pc' = "analyzed"
       ELSE /\ analysis_result' = NoneValue
            /\ raised' = "NameError"
            /\ pc' = "raised"
    /\ UNCHANGED <<shared, called, NLP_AVAILABLE, punkt_found, np_bound, ML_AVAILABLE, models, classifier, features, fp, text_content,
                   risk_analysis, recommendations, clock, run, previous, web>>

(***************************************************************************)
(* predict_risks as one step of the caller.                                *)
(***************************************************************************)
\* lines 85 and 473: generated_at is datetime.now().isoformat() at the call
StampGenerated(bundle, now) == [ bundle EXCEPT !.generated_at = now ]

PredictRisks ==
    /\ pc = "analyzed"
    /\ \E draws \in DrawChoices(analysis_result) :
            risk_analysis' = StampGenerated(predict_risks(analysis_result, ML_AVAILABLE,
                                                          models = "trained", classifier,
                                                          draws, fp), clock)
    /\ raised' = "none"
    /\ pc' = "predicted"
    /\ UNCHANGED <<shared, called, NLP_AVAILABLE, punkt_found, np_bound, ML_AVAILABLE, models, classifier, features, fp, text_content,
                   analysis_result, recommendations, clock, run, previous, web>>

(***************************************************************************)
(* The pipeline: analyze_dpr on a text, then predict_risks on its record.  *)
(***************************************************************************)
Init ==
    /\ \E c \in ImportOutcomes :
         /\ NLP_AVAILABLE = c[1]
         /\ np_bound = c[2]
         /\ ML_AVAILABLE = c[3]
    /\ models \in (IF ML_AVAILABLE THEN {"trained", "None"} ELSE {"None"})
    /\ classifier \in ProbaChoices(ML_AVAILABLE, models = "trained")
    /\ features = NoneValue
    /\ punkt_found = TRUE
    /\ SharedIdle
    /\ called = NoneValue
    /\ fp \in FloatEnvs
    /\ text_content \in Texts
    /\ analysis_result = NoneValue
    /\ risk_analysis = NoneValue
    /\ raised = "none"
    /\ pc = "start"
    /\ recommendations = NoneValue
    /\ clock = 0
    /\ run = "first"
    /\ previous = NoneValue
    /\ WebIdle

Next == AnalyzeDpr \/ PredictRisks

Spec == Init /\ [][Next]_vars

(***************************************************************************)
(* The predictor alone, on records of any origin: a None, a dict without   *)
(* scores, and records with sampled overall and driver scores.             *)
(***************************************************************************)
OverallSamples == {0, 341, 500, 650, 659, 780, 1000}
ScoreSamples == {0, 63, 75, 100}
DriverSections == { DriverSection(c) : c \in RiskCategories }

GivenAnalyses ==
    {NoneValue, [ filename |-> FileName ],
     [ filename |-> FileName, overall_score |-> 780, section_analyses |-> NoneValue ]}
    \cup { [ filename |-> FileName, overall_score |-> o,
             section_analyses |-> [ s \in DriverSections |-> [ score |-> sc[s] ] ] ] :
           o \in OverallSamples, sc \in [ DriverSections -> ScoreSamples ] }

InitPredictor ==
    /\ NLP_AVAILABLE = TRUE
    /\ np_bound = TRUE
    /\ ML_AVAILABLE \in BOOLEAN
    /\ models \in (IF ML_AVAILABLE THEN {"trained", "None"} ELSE {"None"})
    /\ classifier \in ProbaChoices(ML_AVAILABLE, models = "trained")
    /\ features = NoneValue
    /\ punkt_found = TRUE
    /\ SharedIdle
    /\ called = NoneValue
    /\ fp \in { e \in FloatEnvs : ~e.tieUp }
    /\ text_content = EmptyText
    /\ analysis_result \in GivenAnalyses
    /\ risk_analysis = NoneValue
    /\ raised = "none"
    /\ pc = "analyzed"
    /\ recommendations = NoneValue
    /\ clock = 0
    /\ run = "first"
    /\ previous = NoneValue
    /\ WebIdle

NextPredictor == PredictRisks

SpecPredictor == InitPredictor /\ [][NextPredictor]_vars

(***************************************************************************)
(* generate_recommendations as one step of the caller, on the records of   *)
(* analyze_dpr and on records with sampled scores.                         *)
(***************************************************************************)
GenerateRecommendations ==
    /\ pc = "analyzed"
    /\ IF RecommendationsRaise(analysis_result)
       THEN /\ recommendations' = NoneValue
            /\ raised' = "KeyError"
            /\ pc' = "raised"
       ELSE /\ recommendations' = generate_recommendations(analysis_result)
            /\ raised' = "none"
            /\ pc' = "recommended"
    /\ UNCHANGED <<shared, called, NLP_AVAILABLE, punkt_found, np_bound, ML_AVAILABLE, models, classifier, features, fp, text_content,
                   analysis_result, risk_analysis,
                   clock, run, previous, web>>

RecommenderOveralls == {650, 699, 700}
RecommenderScores == {30, 49, 50, 64, 65, 70}
RecommenderSections ==
    {"Context/Background", "Technology Issues", "Means of Finance", "Time Frame",
     "Risk Analysis"}

SampledRecords ==
    { [ filename |-> FileName, overall_score |-> o,
        section_analyses |-> [ s \in RecommenderSections |-> [ score |-> sc[s] ] ] ] :
      o \in RecommenderOveralls, sc \in [ RecommenderSections -> RecommenderScores ] }
    \cup { [ filename |-> FileName ],
           [ filename |-> FileName, overall_score |-> 780,
             section_analyses |-> [ s \in {"Technology Issues"} |-> [ quality |-> 50 ] ] ] }

\* what analyze_dpr returns over the texts and the draws of the model
AnalyzerRecords(tieUp) ==
    { PrimaryAnalysis(t, FileName, tieUp) : t \in StrTexts }
    \cup { generate_fallback_analysis(FileName, t, j) : t \in BytesTexts, j \in Jitters }

InitRecommender ==
    /\ NLP_AVAILABLE = TRUE
    /\ np_bound = TRUE
    /\ ML_AVAILABLE = FALSE
    /\ models = "None"
    /\ classifier = NoneValue
    /\ features = NoneValue
    /\ punkt_found = TRUE
    /\ SharedIdle
    /\ called = NoneValue
    /\ fp \in { e \in FloatEnvs : ~e.below }
    /\ text_content = EmptyText
    /\ analysis_result \in SampledRecords \cup AnalyzerRecords(fp.tieUp)
    /\ risk_analysis = NoneValue
    /\ raised = "none"
    /\ pc = "analyzed"
    /\ recommendations = NoneValue
    /\ clock = 0
    /\ run = "first"
    /\ previous = NoneValue
    /\ WebIdle

NextRecommender == GenerateRecommendations

SpecRecommender == InitRecommender /\ [][NextRecommender]_vars

(***************************************************************************)
(* _extract_features as one step of _predict_with_ml, on the records of    *)
(* analyze_dpr and on records that miss entries.                           *)
(***************************************************************************)
ExtractFeatures ==
    /\ pc = "analyzed"
    /\ IF FeaturesRaise(analysis_result)
       THEN /\ features' = NoneValue
            /\ raised' = "AttributeError"
            /\ pc' = "raised"
       ELSE /\ features' = _extract_features(analysis_result)
            /\ raised' = "none"
            /\ pc' = "features"
    /\ UNCHANGED <<shared, called, NLP_AVAILABLE, punkt_found, np_bound, ML_AVAILABLE, models, classifier, fp,
                   text_content, analysis_result, risk_analysis, recommendations,
                   clock, run, previous, web>>

\* records without some of the entries, and one holding a None
IncompleteRecords ==
    { [ filename |-> FileName ],
      [ filename |-> FileName, overall_score |-> 780,
        section_analyses |-> [ s \in {"Technology Issues"} |-> [ quality |-> 50 ] ] ],
      [ filename |-> FileName, completeness_percentage |-> 900,
        section_analyses |-> [ s \in {"Time Frame", "Risk Analysis"} |-> [ score |-> 30 ] ],
        quality_scores |-> [ compliance |-> 655 ] ],
      [ filename |-> FileName, overall_score |-> 780, section_analyses |-> NoneValue ] }

InitFeatures ==
    /\ NLP_AVAILABLE = TRUE
    /\ np_bound = TRUE
    /\ ML_AVAILABLE = TRUE
    /\ models = "trained"
    /\ classifier \in ProbaChoices(TRUE, TRUE)
    /\ features = NoneValue
    /\ punkt_found = TRUE
    /\ SharedIdle
    /\ called = NoneValue
    /\ fp \in { e \in FloatEnvs : ~e.below }
    /\ text_content = EmptyText
    /\ analysis_result \in IncompleteRecords \cup AnalyzerRecords(fp.tieUp)
    /\ risk_analysis = NoneValue
    /\ raised = "none"
    /\ pc = "analyzed"
    /\ recommendations = NoneValue
    /\ clock = 0
    /\ run = "first"
    /\ previous = NoneValue
    /\ WebIdle

NextFeatures == ExtractFeatures

SpecFeatures == InitFeatures /\ [][NextFeatures]_vars

(***************************************************************************)
(* analyze_dpr on texts of every average sentence length, with and without *)
(* the text toolkit and its tokenizer data.                                *)
(***************************************************************************)
MaxBudget == 20   \* copies of "Budget data" in a text of the readability runs

ReadabilityTexts ==
    [ kind : {"str"}, all : 0..1, budget : 0..MaxBudget, infrastructure : {0},
      lorem : 0..1 ]

InitReadability ==
    /\ \E c \in ImportOutcomes :
         /\ NLP_AVAILABLE = c[1]
         /\ np_bound = c[2]
         /\ ML_AVAILABLE = c[3]
    /\ punkt_found \in BOOLEAN
    /\ SharedIdle
    /\ called = NoneValue
    /\ models = "None"
    /\ classifier = NoneValue
    /\ features = NoneValue
    /\ fp \in { e \in FloatEnvs : ~e.below }
    /\ text_content \in ReadabilityTexts
    /\ analysis_result = NoneValue
    /\ risk_analysis = NoneValue
    /\ raised = "none"
    /\ pc = "start"
    /\ recommendations = NoneValue
    /\ clock = 0
    /\ run = "first"
    /\ previous = NoneValue
    /\ WebIdle

NextReadability == AnalyzeDpr

SpecReadability == InitReadability /\ [][NextReadability]_vars

(***************************************************************************)
(* Calls of analyze_dpr, predict_risks and generate_recommendations run by *)
(* the threads of one process on one analyzer, one predictor and one       *)
(* record.  A thread advances by one loop iteration at a time; what it     *)
(* builds is local to its frame, what it reads is shared.                  *)
(***************************************************************************)
MaxThreads == 2   \* threads running a call each
DrawBatch == 5    \* loop iterations of the fallback a thread runs in one go

Threads == 1..MaxThreads

\* the state of the single caller of the other specifications
single == <<called, NLP_AVAILABLE, punkt_found, np_bound, ML_AVAILABLE, models, classifier,
            features, fp, text_content, analysis_result, risk_analysis, raised, pc,
            recommendations, clock, run, previous, web>>

\* the three draws numpy's generator makes for a section when i triples
\* were drawn before: consecutive triples differ
Stream(i) ==
    IF i % 2 = 0
    THEN [ score |-> Least(RandInt(-15, 16)), completeness |-> Least(RandInt(-10, 21)),
           quality |-> Least(RandInt(-12, 13)) ]
    ELSE [ score |-> Greatest(RandInt(-15, 16)), completeness |-> Greatest(RandInt(-10, 21)),
           quality |-> Greatest(RandInt(-12, 13)) ]

\* d[key] = value on a dict local to the call
Put(d, key, value) ==
    [ k \in DOMAIN d \cup {key} |-> IF k = key THEN value ELSE d[k] ]

\* what a for loop over order has still to visit when the keys of done
\* were visited
Remaining(order, done) ==
    LET Ahead(x) == x \notin DOMAIN done
    IN  SelectSeq(order, Ahead)

\* the dict a lookup with a default leaves behind, were the lookup a
\* setdefault
DictAfterGet_setdefault(d, key, default) ==
    IF key \in DOMAIN d THEN d ELSE Put(d, key, default)
\* the dict d.get(key, default) leaves behind: d itself
DictAfterGet(d, key, default) == d

Frame(call, text, record) ==
    [ call |-> call, pc |-> "call", text |-> text, given |-> record, start |-> 0,
      acc |-> NoneValue, result |-> NoneValue ]

Step(t, frame) == threads' = [ threads EXCEPT ![t] = frame ]

\* lines 72-79: statistics of the text, empty section_analyses
AnalyzeEnter(t) ==
    LET f == threads[t]
    IN  /\ f.call = "analyze_dpr" /\ f.pc = "call"
        /\ Step(t, [ f EXCEPT !.pc = IF PrimaryRaises(f.text) THEN "fallback" ELSE "sections",
                              !.acc = EmptyDict, !.start = np_random ])
        /\ UNCHANGED <<instance, np_random, shared_record, single>>

\* lines 81-86: one iteration of the loop over self.section_weights
AnalyzeSection(t) ==
    LET f == threads[t]
        ahead == Remaining(instance.section_order, f.acc)
    IN  /\ f.call = "analyze_dpr" /\ f.pc = "sections"
        /\ ahead # <<>>
        /\ Step(t, [ f EXCEPT !.acc = Put(f.acc, Head(ahead),
                                          analyze_section(f.text, Head(ahead))) ])
        /\ UNCHANGED <<instance, np_random, shared_record, single>>

\* lines 88-114: the record is built and returned
AnalyzeReturn(t) ==
    LET f == threads[t]
    IN  /\ f.call = "analyze_dpr" /\ f.pc = "sections"
        /\ Remaining(instance.section_order, f.acc) = <<>>
        /\ Step(t, [ f EXCEPT !.pc = "done",
                              !.result = Stamp(AssembleRecord(f.text, FileName, f.acc,
                                                              fp.tieUp), clock) ])
        /\ UNCHANGED <<instance, np_random, shared_record, single>>

\* lines 348-355: the next iterations of the loop of
\* generate_fallback_analysis, which draw from np.random: the thread is
\* descheduled after DrawBatch iterations at the latest
FallbackSection(t) ==
    LET f == threads[t]
        ahead == Remaining(instance.section_order, f.acc)
        batch == Take(ahead, DrawBatch)
        drawn == [ s \in DOMAIN f.acc \cup { batch[i] : i \in 1..Len(batch) } |->
                     IF s \in DOMAIN f.acc THEN f.acc[s]
                     ELSE Stream(np_random + (CHOOSE i \in 1..Len(batch) : batch[i] = s) - 1) ]
    IN  /\ f.call = "analyze_dpr" /\ f.pc = "fallback"
        /\ ahead # <<>>
        /\ Step(t, [ f EXCEPT !.acc = drawn ])
        /\ np_random' = np_random + Len(batch)
        /\ UNCHANGED <<instance, shared_record, single>>

\* lines 357-377: the fallback record is built and returned
FallbackReturn(t) ==
    LET f == threads[t]
    IN  /\ f.call = "analyze_dpr" /\ f.pc = "fallback"
        /\ Remaining(instance.section_order, f.acc) = <<>>
        /\ Step(t, [ f EXCEPT !.pc = "done",
                              !.result = Stamp(generate_fallback_analysis(FileName, f.text,
                                                                          f.acc), clock) ])
        /\ UNCHANGED <<instance, np_random, shared_record, single>>

\* risk_predictor.py lines 65-73: the strategy is chosen
PredictEnter(t) ==
    LET f == threads[t]
    IN  /\ f.call = "predict_risks" /\ f.pc = "call"
        /\ Step(t, [ f EXCEPT !.pc = "categories", !.acc = EmptyDict ])
        /\ shared_record' = DictAfterGet(shared_record, "section_analyses", <<>>)
        /\ UNCHANGED <<instance, np_random, single>>

\* lines 102-132 and 140-141: one iteration of the loop over
\* self.risk_categories, on the record as it is now
PredictCategory(t) ==
    LET f == threads[t]
        ahead == Remaining(instance.risk_categories, f.acc)
        risk == IF ML_AVAILABLE /\ models = "trained"
                THEN _predict_with_ml(shared_record, classifier, fp)[Head(ahead)]
                ELSE _rule_based_risk(Head(ahead), shared_record, fp.below)
    IN  /\ f.call = "predict_risks" /\ f.pc = "categories"
        /\ ahead # <<>>
        /\ Step(t, [ f EXCEPT !.acc = Put(f.acc, Head(ahead), risk) ])
        /\ shared_record' = DictAfterGet(shared_record, "section_analyses", <<>>)
        /\ UNCHANGED <<instance, np_random, single>>

\* lines 75-89: overall risk, summary, and the bundle is returned
PredictReturn(t) ==
    LET f == threads[t]
    IN  /\ f.call = "predict_risks" /\ f.pc = "categories"
        /\ Remaining(instance.risk_categories, f.acc) = <<>>
        /\ Step(t, [ f EXCEPT !.pc = "done",
                              !.result = StampGenerated(PredictedBundle(f.acc), clock) ])
        /\ UNCHANGED <<instance, np_random, shared_record, single>>

\* dpr_analyzer.py lines 301-307: the list of the low scoring sections
RecommendEnter(t) ==
    LET f == threads[t]
        section_analyses == Get(shared_record, "section_analyses", <<>>)
    IN  /\ f.call = "generate_recommendations" /\ f.pc = "call"
        /\ IF RecommendationsRaise(shared_record)
           THEN Step(t, [ f EXCEPT !.pc = "raised" ])
           ELSE Step(t, [ f EXCEPT !.pc = "sort", !.acc = LowScoring(section_analyses) ])
        /\ shared_record' = DictAfterGet(shared_record, "section_analyses", <<>>)
        /\ UNCHANGED <<instance, np_random, single>>

\* line 311: the list of the call is sorted in place
RecommendSort(t) ==
    LET f == threads[t]
        section_analyses == Get(shared_record, "section_analyses", <<>>)
    IN  /\ f.call = "generate_recommendations" /\ f.pc = "sort"
        /\ Step(t, [ f EXCEPT !.pc = "build",
                              !.acc = SortByScore(f.acc, section_analyses) ])
        /\ UNCHANGED <<instance, np_random, shared_record, single>>

\* lines 313-336: the recommendations are appended and returned
RecommendReturn(t) ==
    LET f == threads[t]
    IN  /\ f.call = "generate_recommendations" /\ f.pc = "build"
        /\ Step(t, [ f EXCEPT !.pc = "done",
                              !.result = BuildRecommendations(shared_record, f.acc) ])
        /\ shared_record' = DictAfterGet(shared_record, "section_analyses", <<>>)
        /\ UNCHANGED <<instance, np_random, single>>

ConcurrentTexts ==
    { [ kind |-> "str", all |-> 2, budget |-> 1, infrastructure |-> 0, lorem |-> 0 ],
      [ kind |-> "bytes", all |-> 0, budget |-> 0, infrastructure |-> 0, lorem |-> 1 ] }

ConcurrentRecords ==
    { [ filename |-> FileName, overall_score |-> 650 ],
      [ filename |-> FileName, overall_score |-> 650,
        section_analyses |->
            [ s \in {"Technology Issues", "Means of Finance", "Time Frame", "Risk Analysis"} |->
                [ score |-> CASE s = "Technology Issues" -> 64
                              [] s = "Means of Finance" -> 30
                              [] s = "Time Frame" -> 49
                              [] OTHER -> 70 ] ] ],
      [ filename |-> FileName, overall_score |-> 780,
        section_analyses |-> [ s \in {"Technology Issues"} |-> [ quality |-> 50 ] ] ] }

Frames(record) ==
    { Frame("analyze_dpr", text, record) : text \in ConcurrentTexts }
    \cup { Frame("predict_risks", EmptyText, record),
           Frame("generate_recommendations", EmptyText, record) }

\* threads are interchangeable: their calls are listed in one order
CallRank(f) ==
    CASE f.call = "analyze_dpr" /\ f.text.kind = "str" -> 1
      [] f.call = "analyze_dpr" -> 2
      [] f.call = "predict_risks" -> 3
      [] OTHER -> 4

InitConcurrent ==
    /\ NLP_AVAILABLE = TRUE
    /\ punkt_found = TRUE
    /\ np_bound = TRUE
    /\ ML_AVAILABLE = TRUE
    /\ models = "trained"
    /\ classifier \in ProbaChoices(ML_AVAILABLE, models = "trained")
    /\ features = NoneValue
    /\ fp = [ tieUp |-> FALSE, below |-> FALSE ]
    /\ text_content = EmptyText
    /\ analysis_result = NoneValue
    /\ risk_analysis = NoneValue
    /\ raised = "none"
    /\ pc = "start"
    /\ recommendations = NoneValue
    /\ clock = 0
    /\ run = "first"
    /\ previous = NoneValue
    /\ WebIdle
    /\ called = NoneValue
    /\ instance = Constructed
    /\ np_random = 0
    /\ shared_record \in ConcurrentRecords
    /\ threads \in [ Threads -> Frames(shared_record) ]
    /\ \A t1, t2 \in Threads : t1 < t2 => CallRank(threads[t1]) <= CallRank(threads[t2])

NextConcurrent ==
    \E t \in Threads :
        \/ AnalyzeEnter(t) \/ AnalyzeSection(t) \/ AnalyzeReturn(t)
        \/ FallbackSection(t) \/ FallbackReturn(t)
        \/ PredictEnter(t) \/ PredictCategory(t) \/ PredictReturn(t)
        \/ RecommendEnter(t) \/ RecommendSort(t) \/ RecommendReturn(t)

SpecConcurrent == InitConcurrent /\ [][NextConcurrent]_vars

(***************************************************************************)
(* identify_section_issues and generate_section_recommendations called on  *)
(* their own, on every section and on scores around their thresholds.      *)
(***************************************************************************)
FeedbackScores == {0, 30, 49, 50, 51, 69, 70, 74, 75, 100}
FeedbackCompleteness == {20, 59, 60, 100}

Calls ==
    { [ method |-> "identify_section_issues", section_name |-> s, score |-> sc,
        completeness |-> c, result |-> NoneValue ] :
      s \in Sections, sc \in FeedbackScores, c \in FeedbackCompleteness }
    \cup { [ method |-> "generate_section_recommendations", section_name |-> s,
             score |-> sc, completeness |-> 0, result |-> NoneValue ] :
           s \in Sections, sc \in FeedbackScores }

IdentifySectionIssues ==
    /\ ~IsNone(called)
    /\ called.method = "identify_section_issues"
    /\ IsNone(called.result)
    /\ called' = [ called EXCEPT !.result = [ issues |->
                       identify_section_issues(called.section_name, called.score,
                                               called.completeness) ] ]
    /\ UNCHANGED <<shared, NLP_AVAILABLE, punkt_found, np_bound, ML_AVAILABLE, models,
                   classifier, features, fp, text_content, analysis_result,
                   risk_analysis, raised, pc, recommendations, clock, run, previous, web>>

GenerateSectionRecommendations ==
    /\ ~IsNone(called)
    /\ called.method = "generate_section_recommendations"
    /\ IsNone(called.result)
    /\ called' = [ called EXCEPT !.result = [ recommendations |->
                       generate_section_recommendations(called.section_name,
                                                        called.score) ] ]
    /\ UNCHANGED <<shared, NLP_AVAILABLE, punkt_found, np_bound, ML_AVAILABLE, models,
                   classifier, features, fp, text_content, analysis_result,
                   risk_analysis, raised, pc, recommendations, clock, run, previous, web>>

InitFeedback ==
    /\ NLP_AVAILABLE = TRUE
    /\ punkt_found = TRUE
    /\ SharedIdle
    /\ called \in Calls
    /\ np_bound = TRUE
    /\ ML_AVAILABLE = FALSE
    /\ models = "None"
    /\ classifier = NoneValue
    /\ features = NoneValue
    /\ fp = [ tieUp |-> FALSE, below |-> FALSE ]
    /\ text_content = EmptyText
    /\ analysis_result = NoneValue
    /\ risk_analysis = NoneValue
    /\ raised = "none"
    /\ pc = "start"
    /\ recommendations = NoneValue
    /\ clock = 0
    /\ run = "first"
    /\ previous = NoneValue
    /\ WebIdle

NextFeedback == IdentifySectionIssues \/ GenerateSectionRecommendations

SpecFeedback == InitFeedback /\ [][NextFeedback]_vars

(***************************************************************************)
(* The pipeline run twice on one input by one process: the caller keeps    *)
(* what the first run returned and calls again; the wall clock moves on.   *)
(***************************************************************************)
MaxClock == 1   \* ticks of the wall clock

Tick ==
    /\ clock < MaxClock
    /\ clock' = clock + 1
    /\ UNCHANGED <<shared, called, NLP_AVAILABLE, punkt_found, np_bound, ML_AVAILABLE, models, classifier, features, fp, text_content,
                   analysis_result, risk_analysis, raised, pc, recommendations,
                   run, previous, web>>

Rerun ==
    /\ pc = "predicted"
    /\ run = "first"
    /\ previous' = [ analysis |-> analysis_result, risks |-> risk_analysis ]
    /\ run' = "second"
    /\ pc' = "start"
    /\ UNCHANGED <<shared, called, NLP_AVAILABLE, punkt_found, np_bound, ML_AVAILABLE, models, classifier, features, fp, text_content,
                   analysis_result, risk_analysis, raised, recommendations, clock, web>>

\* texts of at most one copy of each fragment; one bytes text
RerunTexts ==
    { t \in StrTexts : t.all <= 1 /\ t.budget <= 1 /\ t.infrastructure <= 1 /\ t.lorem <= 1 }
    \cup { t \in BytesTexts : t.lorem = 1 }

InitRerun ==
    /\ \E c \in ImportOutcomes :
         /\ NLP_AVAILABLE = c[1]
         /\ np_bound = c[2]
         /\ ML_AVAILABLE = c[3]
    /\ models \in (IF ML_AVAILABLE THEN {"trained", "None"} ELSE {"None"})
    /\ classifier \in ProbaChoices(ML_AVAILABLE, models = "trained")
    /\ features = NoneValue
    /\ punkt_found = TRUE
    /\ SharedIdle
    /\ called = NoneValue
    /\ fp \in FloatEnvs
    /\ text_content \in RerunTexts
    /\ text_content.kind = "bytes" => NLP_AVAILABLE /\ ML_AVAILABLE /\ ~fp.tieUp /\ ~fp.below
                                      /\ models = "trained"
    /\ analysis_result = NoneValue
    /\ risk_analysis = NoneValue
    /\ raised = "none"
    /\ pc = "start"
    /\ recommendations = NoneValue
    /\ clock = 0
    /\ run = "first"
    /\ previous = NoneValue
    /\ WebIdle

NextRerun == AnalyzeDpr \/ PredictRisks \/ Rerun \/ Tick

SpecRerun == InitRerun /\ [][NextRerun]_vars

(***************************************************************************)
(* extract_text as one step of the caller, over files of every kind.       *)
(***************************************************************************)
ExtractText ==
    /\ pc = "start"
    /\ extracted' = extract_text(files, filepath)
    /\ raised' = "none"
    /\ pc' = "extracted"
    /\ UNCHANGED <<shared, called, NLP_AVAILABLE, punkt_found, np_bound, ML_AVAILABLE, models, classifier, features, fp, text_content,
                   analysis_result, risk_analysis, recommendations, clock, run, previous,
                   PDF_AVAILABLE, PDFPLUMBER_AVAILABLE, DOCX_AVAILABLE, files, filepath,
                   dbVars, MODULES_AVAILABLE, response>>

FileTexts ==
    { t \in StrTexts : t.all <= 1 /\ t.budget <= 1 /\ t.infrastructure = 0 /\ t.lorem = 0 }

FileContents ==
    [ text : FileTexts, readable : BOOLEAN, utf8 : BOOLEAN,
      plumber : {"text", "blank", "raises", "raises_late"},
      pypdf2 : {"text", "blank", "raises"}, docx : {"text", "blank", "raises"} ]

\* the content of a file under a name: only what the reader chosen by the
\* extension looks at varies
ContentsFor(path) ==
    { f \in FileContents :
        /\ Ext(path) # ".txt" => f.readable /\ f.utf8
        /\ Ext(path) # ".pdf" => f.plumber = "raises" /\ f.pypdf2 = "raises"
        /\ Ext(path) \notin {".docx", ".doc"} => f.docx = "raises"
        /\ ~f.readable => f.utf8 /\ f.text = EmptyText
        /\ f.plumber \in {"blank", "raises"} /\ f.pypdf2 # "text" /\ f.docx # "text"
             /\ Ext(path) # ".txt" => f.text = EmptyText }

InitExtract ==
    /\ NLP_AVAILABLE = TRUE
    /\ np_bound = TRUE
    /\ ML_AVAILABLE = FALSE
    /\ models = "None"
    /\ classifier = NoneValue
    /\ features = NoneValue
    /\ punkt_found = TRUE
    /\ SharedIdle
    /\ called = NoneValue
    /\ fp \in { e \in FloatEnvs : ~e.below /\ ~e.tieUp }
    /\ text_content = EmptyText
    /\ analysis_result = NoneValue
    /\ risk_analysis = NoneValue
    /\ raised = "none"
    /\ pc = "start"
    /\ recommendations = NoneValue
    /\ clock = 0
    /\ run = "first"
    /\ previous = NoneValue
    /\ PDF_AVAILABLE \in BOOLEAN
    /\ PDFPLUMBER_AVAILABLE \in BOOLEAN
    /\ DOCX_AVAILABLE \in BOOLEAN
    /\ filepath \in { Path(0, name) : name \in FileNames }
    /\ \/ files = NoFiles
       \/ \E f \in ContentsFor(filepath) : files = [ path \in {filepath} |-> f ]
    /\ extracted = NoneValue
    /\ DbIdle
    /\ MODULES_AVAILABLE = TRUE
    /\ response = NoneValue

NextExtract == ExtractText

SpecExtract == InitExtract /\ [][NextExtract]_vars

(***************************************************************************)
(* The database manager under any sequence of store_analysis, get_analysis,*)
(* delete_analysis and cleanup_old_analyses calls.  A statement of a transaction may fail (the  *)
(* database is locked, the disk is full): the connection context manager   *)
(* then rolls the transaction back and the method returns None / False.    *)
(***************************************************************************)
MaxIds == 3   \* ids uuid.uuid4() can produce
Ids == 1..MaxIds

\* the result bundle of upload_file, lines 123-133
ResultBundle(analysis_id, filename, now, file_size, analysis, risks, recs) ==
    [ analysis_id |-> analysis_id,
      file_info |-> [ filename |-> filename, uploaded_at |-> now, file_size |-> file_size ],
      analysis |-> analysis,
      risks |-> risks,
      recommendations |-> recs ]

\* bundles of records with sampled scores, and a dict without any key
StoreOveralls == {341, 780}
StoreBundles ==
    { LET analysis == [ filename |-> FileName, analyzed_at |-> 0, overall_score |-> o,
                        completeness_percentage |-> 750,
                        section_analyses |->
                            [ s \in DriverSections |->
                                [ score |-> 63, completeness |-> 50, quality |-> 60 ] ] ]
      IN  ResultBundle(0, FileName, 0, 1024, analysis,
                       StampGenerated(PredictedBundle(_predict_with_rules(analysis, FALSE)), 0),
                       generate_recommendations(analysis)) :
      o \in StoreOveralls }
    \cup { EmptyDict }

StoreAnalysis ==
    /\ \E analysis_data \in StoreBundles, analysis_id \in Ids \ issued, fails \in BOOLEAN :
         /\ issued' = issued \cup {analysis_id}
         /\ IF fails
            THEN /\ last' = [ op |-> "store_analysis", arg |-> analysis_data,
                              result |-> NoneValue ]
                 /\ UNCHANGED <<db, stored>>
            ELSE /\ db' = Inserted(db, analysis_id, analysis_data, clock)
                 /\ stored' = [ id \in DOMAIN stored \cup {analysis_id} |->
                                  IF id = analysis_id THEN analysis_data ELSE stored[id] ]
                 /\ last' = [ op |-> "store_analysis", arg |-> analysis_data,
                              result |-> analysis_id ]
    /\ UNCHANGED <<shared, called, NLP_AVAILABLE, punkt_found, np_bound, ML_AVAILABLE, models, classifier, features, fp, text_content,
                   analysis_result, risk_analysis, raised, pc, recommendations,
                   clock, run, previous,
                   PDF_AVAILABLE, PDFPLUMBER_AVAILABLE, DOCX_AVAILABLE, files, filepath,
                   extracted, deleted, MODULES_AVAILABLE, response>>

GetAnalysis ==
    /\ \E analysis_id \in Ids :
         last' = [ op |-> "get_analysis", arg |-> analysis_id,
                   result |-> get_analysis(db, analysis_id) ]
    /\ UNCHANGED <<shared, called, NLP_AVAILABLE, punkt_found, np_bound, ML_AVAILABLE, models, classifier, features, fp, text_content,
                   analysis_result, risk_analysis, raised, pc, recommendations,
                   clock, run, previous,
                   PDF_AVAILABLE, PDFPLUMBER_AVAILABLE, DOCX_AVAILABLE, files, filepath,
                   extracted, db, issued, stored, deleted, MODULES_AVAILABLE, response>>

DeleteAnalysis ==
    /\ \E analysis_id \in Ids, fails \in BOOLEAN :
         IF fails
         THEN /\ last' = [ op |-> "delete_analysis", arg |-> analysis_id, result |-> FALSE ]
              /\ UNCHANGED <<db, deleted>>
         ELSE /\ db' = Deleted(db, analysis_id)
              /\ deleted' = IF analysis_id \in DOMAIN db.analyses
                            THEN deleted \cup {analysis_id} ELSE deleted
              /\ last' = [ op |-> "delete_analysis", arg |-> analysis_id,
                           result |-> analysis_id \in DOMAIN db.analyses ]
    /\ UNCHANGED <<shared, called, NLP_AVAILABLE, punkt_found, np_bound, ML_AVAILABLE, models, classifier, features, fp, text_content,
                   analysis_result, risk_analysis, raised, pc, recommendations,
                   clock, run, previous,
                   PDF_AVAILABLE, PDFPLUMBER_AVAILABLE, DOCX_AVAILABLE, files, filepath,
                   extracted, issued, stored, MODULES_AVAILABLE, response>>

\* cleanup_old_analyses(days): old_ids are the rows whose analyzed_at lies
\* more than days before the time of the call, which is any set of rows to
\* the store (the wall clock is no state of it).  The SELECT may fail, and
\* then 0 is returned; a delete_analysis that fails returns False, which the
\* loop ignores, so the count returned is that of the rows selected.
CleanupOldAnalyses ==
    /\ \E old_ids \in SUBSET DOMAIN db.analyses, fails \in BOOLEAN :
         IF fails
         THEN /\ last' = [ op |-> "cleanup_old_analyses", arg |-> old_ids, result |-> 0 ]
              /\ UNCHANGED <<db, deleted>>
         ELSE \E failing \in SUBSET old_ids :
                /\ db' = DeleteEach(db, old_ids \ failing)
                /\ deleted' = deleted \cup (old_ids \ failing)
                /\ last' = [ op |-> "cleanup_old_analyses", arg |-> old_ids,
                             result |-> Cardinality(old_ids) ]
    /\ UNCHANGED <<shared, called, NLP_AVAILABLE, punkt_found, np_bound, ML_AVAILABLE, models, classifier, features, fp, text_content,
                   analysis_result, risk_analysis, raised, pc, recommendations,
                   clock, run, previous,
                   PDF_AVAILABLE, PDFPLUMBER_AVAILABLE, DOCX_AVAILABLE, files, filepath,
                   extracted, issued, stored, MODULES_AVAILABLE, response>>

InitStore ==
    /\ NLP_AVAILABLE = TRUE
    /\ np_bound = TRUE
    /\ ML_AVAILABLE = FALSE
    /\ models = "None"
    /\ classifier = NoneValue
    /\ features = NoneValue
    /\ punkt_found = TRUE
    /\ SharedIdle
    /\ called = NoneValue
    /\ fp \in { e \in FloatEnvs : ~e.below /\ ~e.tieUp }
    /\ text_content = EmptyText
    /\ analysis_result = NoneValue
    /\ risk_analysis = NoneValue
    /\ raised = "none"
    /\ pc = "start"
    /\ recommendations = NoneValue
    /\ clock = 0
    /\ run = "first"
    /\ previous = NoneValue
    /\ WebIdle

NextStore == StoreAnalysis \/ GetAnalysis \/ DeleteAnalysis \/ CleanupOldAnalyses

SpecStore == InitStore /\ [][NextStore]_vars

(***************************************************************************)
(* app.upload_file as one step of the server: the whole handler, from the  *)
(* checks of the request to the response.                                  *)
(***************************************************************************)
\* analyze_dpr(text_content, filename) as the handler calls it: the record,
\* or the exception that escapes
analyze_dpr(text, filename, jitter, now) ==
    IF ~PrimaryRaises(text) THEN Stamp(PrimaryAnalysis(text, filename, fp.tieUp), now)
    ELSE IF ~FallbackRaises
    THEN Stamp(generate_fallback_analysis(filename, text, jitter), now)
    ELSE [ raised |-> "NameError" ]

generate_demo_data(filename, now) ==
    [ analysis_id |-> <<"demo_", now>>,
      file_info |-> [ filename |-> filename, uploaded_at |-> now, file_size |-> 1024000 ],
      analysis |->
          [ filename |-> filename,
            overall_score |-> 780,
            completeness_percentage |-> 800,
            section_analyses |->
                [ s \in Sections |->
                    CASE s = "Context/Background" ->
                           [ score |-> 85, completeness |-> 90, quality |-> 80 ]
                      [] s = "Problems Addressed" ->
                           [ score |-> 90, completeness |-> 95, quality |-> 85 ]
                      [] s = "Project Objectives" ->
                           [ score |-> 75, completeness |-> 80, quality |-> 70 ]
                      [] s = "Technology Issues" ->
                           [ score |-> 70, completeness |-> 75, quality |-> 65 ]
                      [] s = "Management Arrangements" ->
                           [ score |-> 80, completeness |-> 85, quality |-> 75 ]
                      [] s = "Means of Finance" ->
                           [ score |-> 75, completeness |-> 80, quality |-> 70 ]
                      [] s = "Time Frame" ->
                           [ score |-> 65, completeness |-> 70, quality |-> 60 ]
                      [] s = "Target Beneficiaries" ->
                           [ score |-> 85, completeness |-> 90, quality |-> 80 ]
                      [] s = "Legal Framework" ->
                           [ score |-> 80, completeness |-> 85, quality |-> 75 ]
                      [] OTHER ->
                           [ score |-> 60, completeness |-> 65, quality |-> 55 ] ],
            quality_scores |->
                [ data_accuracy |-> 820, completeness |-> 780, technical_viability |-> 740,
                  compliance |-> 850, budget_realism |-> 700 ] ],
      risks |->
          [ overall_risk |-> [ level |-> "Medium", score |-> 550 ],
            risk_predictions |->
                [ c \in RiskCategories |->
                    CASE c = "Budget Overrun Risk" ->
                           [ probability |-> 700, level |-> "High", severity |-> "Medium" ]
                      [] c = "Timeline Delay Risk" ->
                           [ probability |-> 550, level |-> "Medium", severity |-> "Low" ]
                      [] c = "Technical Implementation Risk" ->
                           [ probability |-> 650, level |-> "High", severity |-> "High" ]
                      [] c = "Compliance Risk" ->
                           [ probability |-> 250, level |-> "Low", severity |-> "Low" ]
                      [] OTHER ->
                           [ probability |-> 450, level |-> "Medium", severity |-> "Medium" ] ] ],
      recommendations |->
          << [ priority |-> "High", category |-> "Risk Analysis",
               recommendation |-> <<"enhance_risk_analysis">> ],
             [ priority |-> "Medium", category |-> "Timeline",
               recommendation |-> <<"realistic_timeline">> ],
             [ priority |-> "Medium", category |-> "Budget",
               recommendation |-> <<"cost_breakdown">> ],
             [ priority |-> "Low", category |-> "Technical",
               recommendation |-> <<"feasibility_validation">> ] >> ]

\* allowed_file
ALLOWED_EXTENSIONS == {".pdf", ".txt", ".doc", ".docx"}
allowed_file(filename) == Ext(Path(0, filename)) \in ALLOWED_EXTENSIONS

\* the requests: without a file part, with an empty file name, with a file
\* that is not allowed, and with text files whose text can be read
UploadNames == {"dpr.txt", "DPR.TXT", "dpr.png"}
UploadContents ==
    { f \in FileContents :
        /\ f.readable /\ f.utf8 /\ ~Blank(f.text)
        /\ f.plumber = "raises" /\ f.pypdf2 = "raises" /\ f.docx = "raises" }
Requests ==
    { [ part |-> FALSE ] }
    \cup [ part : {TRUE}, filename : UploadNames \cup {""}, file : UploadContents ]

ErrorResponse(status, error) == [ status |-> status, body |-> [ error |-> error ] ]

Upload ==
    /\ pc = "start"
    \* an uploaded text is a str: generate_fallback_analysis is entered only
    \* where np.random raises, before any draw is used
    /\ \E req \in Requests, jitter \in {CHOOSE j \in Jitters : TRUE}, store_fails \in BOOLEAN,
          analysis_id \in Ids \ issued :
         IF ~req.part
         THEN /\ response' = ErrorResponse(400, "No file provided")
              /\ UNCHANGED <<files, filepath, extracted, text_content, analysis_result,
                             risk_analysis, recommendations, raised, db, issued, stored, last>>
         ELSE IF req.filename = ""
         THEN /\ response' = ErrorResponse(400, "No file selected")
              /\ UNCHANGED <<files, filepath, extracted, text_content, analysis_result,
                             risk_analysis, recommendations, raised, db, issued, stored, last>>
         ELSE IF ~allowed_file(req.filename)
         THEN /\ response' = ErrorResponse(400, "File type not allowed")
              /\ UNCHANGED <<files, filepath, extracted, text_content, analysis_result,
                             risk_analysis, recommendations, raised, db, issued, stored, last>>
         ELSE LET timestamp == clock
                  saved == Path(timestamp, req.filename)
                  \* file.save(filepath)
                  fs == [ path \in DOMAIN files \cup {saved} |->
                            IF path = saved THEN req.file ELSE files[path] ]
                  \* os.remove(filepath)
                  removed == [ path \in DOMAIN fs \ {saved} |-> fs[path] ]
              IN  /\ filepath' = saved
                  /\ IF ~MODULES_AVAILABLE
                     THEN /\ response' = [ status |-> 200,
                                           body |-> generate_demo_data(req.filename, clock) ]
                          /\ files' = removed
                          /\ UNCHANGED <<extracted, text_content, analysis_result,
                                         risk_analysis, recommendations, raised,
                                         db, issued, stored, last>>
                     ELSE LET text == extract_text(fs, saved)
                              analysis == analyze_dpr(text.text, saved, jitter, clock)
                              risks == StampGenerated(
                                           predict_risks(analysis, ML_AVAILABLE,
                                                         models = "trained", classifier,
                                                         [ c \in RiskCategories |-> 2500 ], fp),
                                           clock)
                              recs == generate_recommendations(analysis)
                              result == ResultBundle(timestamp, req.filename, clock,
                                                     [ bytes_of |-> req.file.text ],
                                                     analysis, risks, recs)
                          IN  /\ extracted' = text
                              /\ text_content' = text.text
                              /\ IF "raised" \in DOMAIN analysis
                                 THEN \* the outer handler: the file stays
                                      /\ response' = ErrorResponse(500, analysis.raised)
                                      /\ raised' = "none"
                                      /\ files' = fs
                                      /\ UNCHANGED <<analysis_result, risk_analysis,
                                                     recommendations, db, issued, stored, last>>
                                 ELSE /\ analysis_result' = analysis
                                      /\ risk_analysis' = risks
                                      /\ recommendations' = recs
                                      /\ raised' = "none"
                                      /\ issued' = issued \cup {analysis_id}
                                      /\ IF store_fails
                                         THEN /\ last' = [ op |-> "store_analysis",
                                                           arg |-> result,
                                                           result |-> NoneValue ]
                                              /\ UNCHANGED <<db, stored>>
                                         ELSE /\ db' = Inserted(db, analysis_id, result, clock)
                                              /\ stored' =
                                                   [ id \in DOMAIN stored \cup {analysis_id} |->
                                                       IF id = analysis_id THEN result
                                                       ELSE stored[id] ]
                                              /\ last' = [ op |-> "store_analysis",
                                                           arg |-> result,
                                                           result |-> analysis_id ]
                                      /\ files' = removed
                                      /\ response' = [ status |-> 200, body |-> result ]
    /\ pc' = "responded"
    /\ UNCHANGED <<shared, called, NLP_AVAILABLE, punkt_found, np_bound, ML_AVAILABLE, models, classifier, features, fp, clock, run, previous,
                   PDF_AVAILABLE, PDFPLUMBER_AVAILABLE, DOCX_AVAILABLE, deleted,
                   MODULES_AVAILABLE>>

InitUpload ==
    /\ \E c \in ImportOutcomes :
         /\ NLP_AVAILABLE = c[1]
         /\ np_bound = c[2]
         /\ ML_AVAILABLE = c[3]
    /\ models \in (IF ML_AVAILABLE THEN {"trained", "None"} ELSE {"None"})
    /\ classifier \in ProbaChoices(ML_AVAILABLE, models = "trained")
    /\ features = NoneValue
    /\ punkt_found = TRUE
    /\ SharedIdle
    /\ called = NoneValue
    /\ fp \in FloatEnvs
    /\ text_content = EmptyText
    /\ analysis_result = NoneValue
    /\ risk_analysis = NoneValue
    /\ raised = "none"
    /\ pc = "start"
    /\ recommendations = NoneValue
    /\ clock = 0
    /\ run = "first"
    /\ previous = NoneValue
    /\ PDF_AVAILABLE \in BOOLEAN
    /\ PDFPLUMBER_AVAILABLE = PDF_AVAILABLE
    /\ DOCX_AVAILABLE = PDF_AVAILABLE
    /\ files = NoFiles
    /\ filepath = Path(0, FileName)
    /\ extracted = NoneValue
    /\ DbIdle
    /\ MODULES_AVAILABLE \in BOOLEAN
    /\ response = NoneValue

NextUpload == Upload

SpecUpload == InitUpload /\ [][NextUpload]_vars

(***************************************************************************)
(* app.upload_file step by step, one request per thread of the server      *)
(* (app.run serves each request in a thread of its own).  The steps are    *)
(* the accesses to the upload folder: file.save, extract_text, getsize,    *)
(* os.path.exists and os.remove; the folder, the clock and the database    *)
(* are shared, everything else is local to the request.                    *)
(***************************************************************************)
MaxUploads == 2   \* requests in flight
Uploads == 1..MaxUploads

\* the variables no step of upload_file touches
uploadRest ==
    <<instance, np_random, shared_record, called, NLP_AVAILABLE, punkt_found, np_bound,
      ML_AVAILABLE, models, classifier, features, fp, text_content, analysis_result,
      risk_analysis, raised, pc, recommendations, clock, run, previous, PDF_AVAILABLE,
      PDFPLUMBER_AVAILABLE, DOCX_AVAILABLE, filepath, extracted, deleted,
      MODULES_AVAILABLE, response>>

\* request t uploads a readable text file of its own
UploadText(t) ==
    [ kind |-> "str", all |-> 0, budget |-> t, infrastructure |-> 0, lorem |-> 0 ]
UploadFile(t) ==
    [ text |-> UploadText(t), readable |-> TRUE, utf8 |-> TRUE,
      plumber |-> "raises", pypdf2 |-> "raises", docx |-> "raises" ]
UploadRequests(t) ==
    { [ part |-> FALSE ] }
    \cup [ part : {TRUE}, filename : UploadNames \cup {""}, file : {UploadFile(t)} ]

\* a request that entered upload_file
Arrived(req) ==
    [ request |-> req, pc |-> "start", timestamp |-> NoneValue, filepath |-> NoneValue,
      text |-> NoneValue, made |-> NoneValue, result |-> NoneValue,
      response |-> NoneValue ]

\* the pipeline on the sample document stands for itself: its record is not
\* computed, it is only known not to be the record of an uploaded text
SamplePipeline ==
    [ analysis |-> [ document |-> "sample" ], risks |-> [ document |-> "sample" ],
      recommendations |-> <<>> ]

\* the three calls of the pipeline on what extract_text returned
Pipeline(doc, filename, now) ==
    IF doc.doc = "sample" THEN SamplePipeline
    ELSE LET analysis == analyze_dpr(doc.text, filename, CHOOSE j \in Jitters : TRUE, now)
         IN  IF "raised" \in DOMAIN analysis THEN [ raised |-> analysis.raised ]
             ELSE [ analysis |-> analysis,
                    risks |-> StampGenerated(
                                  predict_risks(analysis, ML_AVAILABLE, models = "trained",
                                                classifier,
                                                [ c \in RiskCategories |-> 2500 ], fp), now),
                    recommendations |-> generate_recommendations(analysis) ]

\* lines 93-108: the checks of the request, the time stamp, file.save
UploadSave(t) ==
    /\ threads[t].pc = "start"
    /\ LET req == threads[t].request
       IN  IF ~req.part
           THEN /\ threads' = [ threads EXCEPT ![t].pc = "responded",
                                  ![t].response = ErrorResponse(400, "No file provided") ]
                /\ UNCHANGED files
           ELSE IF req.filename = ""
           THEN /\ threads' = [ threads EXCEPT ![t].pc = "responded",
                                  ![t].response = ErrorResponse(400, "No file selected") ]
                /\ UNCHANGED files
           ELSE IF ~allowed_file(req.filename)
           THEN /\ threads' = [ threads EXCEPT ![t].pc = "responded",
                                  ![t].response = ErrorResponse(400, "File type not allowed") ]
                /\ UNCHANGED files
           ELSE LET saved == Path(clock, req.filename)
                IN  /\ files' = [ path \in DOMAIN files \cup {saved} |->
                                    IF path = saved THEN req.file ELSE files[path] ]
                    /\ threads' = [ threads EXCEPT ![t].pc = "saved",
                                      ![t].timestamp = clock, ![t].filepath = saved ]
    /\ UNCHANGED <<uploadRest, db, issued, stored, last>>

\* lines 113-115, or 134-136 without the modules
UploadExtract(t) ==
    /\ threads[t].pc = "saved"
    /\ IF MODULES_AVAILABLE
       THEN threads' = [ threads EXCEPT ![t].pc = "extracted",
                           ![t].text = extract_text(files, threads[t].filepath) ]
       ELSE threads' = [ threads EXCEPT ![t].pc = "built",
                           ![t].result = generate_demo_data(threads[t].request.filename,
                                                            clock) ]
    /\ UNCHANGED <<uploadRest, files, db, issued, stored, last>>

\* lines 116-118 and 129: analyze_dpr, predict_risks, generate_recommendations;
\* an exception of analyze_dpr leaves through the handler of line 144
UploadAnalyze(t) ==
    /\ threads[t].pc = "extracted"
    /\ LET made == Pipeline(threads[t].text, threads[t].filepath, clock)
       IN  IF "raised" \in DOMAIN made
           THEN threads' = [ threads EXCEPT ![t].pc = "responded",
                               ![t].response = ErrorResponse(500, made.raised) ]
           ELSE threads' = [ threads EXCEPT ![t].pc = "analyzed", ![t].made = made ]
    /\ UNCHANGED <<uploadRest, files, db, issued, stored, last>>

\* lines 119-132: the bundle with os.path.getsize(filepath), a
\* FileNotFoundError when the file is gone, and store_analysis
UploadBuild(t) ==
    /\ threads[t].pc = "analyzed"
    /\ LET f == threads[t]
       IN  IF f.filepath \notin DOMAIN files
           THEN /\ threads' = [ threads EXCEPT ![t].pc = "responded",
                                  ![t].response = ErrorResponse(500, "FileNotFoundError") ]
                /\ UNCHANGED <<db, issued, stored, last>>
           ELSE LET result == ResultBundle(f.timestamp, f.request.filename, clock,
                                           [ bytes_of |-> files[f.filepath].text ],
                                           f.made.analysis, f.made.risks,
                                           f.made.recommendations)
                    \* uuid.uuid4(): the ids are interchangeable, the next unused
                    \* one is taken
                    analysis_id == CHOOSE id \in Ids \ issued :
                                       \A other \in Ids \ issued : id <= other
                IN  /\ threads' = [ threads EXCEPT ![t].pc = "built", ![t].result = result ]
                    /\ issued' = issued \cup {analysis_id}
                    /\ \E store_fails \in BOOLEAN :
                         IF store_fails
                         THEN /\ last' = [ op |-> "store_analysis", arg |-> result,
                                           result |-> NoneValue ]
                              /\ UNCHANGED <<db, stored>>
                         ELSE /\ db' = Inserted(db, analysis_id, result, clock)
                              /\ stored' = [ id \in DOMAIN stored \cup {analysis_id} |->
                                               IF id = analysis_id THEN result
                                               ELSE stored[id] ]
                              /\ last' = [ op |-> "store_analysis", arg |-> result,
                                           result |-> analysis_id ]
    /\ UNCHANGED <<uploadRest, files>>

\* line 139: os.path.exists(filepath); line 142 when it does not
UploadExists(t) ==
    /\ threads[t].pc = "built"
    /\ IF threads[t].filepath \in DOMAIN files
       THEN threads' = [ threads EXCEPT ![t].pc = "exists" ]
       ELSE threads' = [ threads EXCEPT ![t].pc = "responded",
                           ![t].response = [ status |-> 200, body |-> threads[t].result ] ]
    /\ UNCHANGED <<uploadRest, files, db, issued, stored, last>>

\* lines 140-142: os.remove(filepath), a FileNotFoundError when the file
\* went away since line 139
UploadRemove(t) ==
    /\ threads[t].pc = "exists"
    /\ IF threads[t].filepath \in DOMAIN files
       THEN /\ files' = [ path \in DOMAIN files \ {threads[t].filepath} |-> files[path] ]
            /\ threads' = [ threads EXCEPT ![t].pc = "responded",
                              ![t].response = [ status |-> 200, body |-> threads[t].result ] ]
       ELSE /\ threads' = [ threads EXCEPT ![t].pc = "responded",
                              ![t].response = ErrorResponse(500, "FileNotFoundError") ]
            /\ UNCHANGED files
    /\ UNCHANGED <<uploadRest, db, issued, stored, last>>

UploadStep(t) ==
    \/ UploadSave(t) \/ UploadExtract(t) \/ UploadAnalyze(t)
    \/ UploadBuild(t) \/ UploadExists(t) \/ UploadRemove(t)

\* requests in flight together, each with a file that is allowed, with every
\* module imported
InitUploads ==
    /\ NLP_AVAILABLE = TRUE
    /\ punkt_found = TRUE
    /\ np_bound = TRUE
    /\ ML_AVAILABLE = FALSE
    /\ models = "None"
    /\ classifier = NoneValue
    /\ features = NoneValue
    /\ fp = [ tieUp |-> FALSE, below |-> FALSE ]
    /\ text_content = EmptyText
    /\ analysis_result = NoneValue
    /\ risk_analysis = NoneValue
    /\ raised = "none"
    /\ pc = "start"
    /\ recommendations = NoneValue
    /\ clock = 0
    /\ run = "first"
    /\ previous = NoneValue
    /\ WebIdle
    /\ called = NoneValue
    /\ instance = Constructed
    /\ np_random = 0
    /\ shared_record = NoneValue
    /\ threads \in { [ t \in Uploads |-> Arrived(reqs[t]) ] :
                       reqs \in { r \in [ Uploads -> UNION { UploadRequests(t) : t \in Uploads } ] :
                                    \A t \in Uploads : /\ r[t] \in UploadRequests(t)
                                                       /\ r[t].part
                                                       /\ allowed_file(r[t].filename)
                                                       /\ r[1].filename = FileName } }

NextUploads == Tick \/ \E t \in Uploads : UploadStep(t)

SpecUploads == InitUploads /\ [][NextUploads]_vars

\* one request, under the outcomes of the imports that leave the predictor
\* with its rules
InitOneUpload ==
    /\ \E c \in ImportOutcomes :
         /\ NLP_AVAILABLE = c[1]
         /\ np_bound = c[2]
         /\ ML_AVAILABLE = c[3]
    /\ ML_AVAILABLE = FALSE
    /\ models = "None"
    /\ classifier = NoneValue
    /\ features = NoneValue
    /\ punkt_found = TRUE
    /\ fp = [ tieUp |-> FALSE, below |-> FALSE ]
    /\ text_content = EmptyText
    /\ analysis_result = NoneValue
    /\ risk_analysis = NoneValue
    /\ raised = "none"
    /\ pc = "start"
    /\ recommendations = NoneValue
    /\ clock = 0
    /\ run = "first"
    /\ previous = NoneValue
    /\ PDF_AVAILABLE = TRUE
    /\ PDFPLUMBER_AVAILABLE = TRUE
    /\ DOCX_AVAILABLE = TRUE
    /\ files = NoFiles
    /\ filepath = Path(0, FileName)
    /\ extracted = NoneValue
    /\ DbIdle
    /\ MODULES_AVAILABLE \in BOOLEAN
    /\ response = NoneValue
    /\ called = NoneValue
    /\ instance = Constructed
    /\ np_random = 0
    /\ shared_record = NoneValue
    /\ threads \in { [ t \in {1} |-> Arrived(r) ] : r \in UploadRequests(1) }

NextOneUpload == Tick \/ UploadStep(1)

\* the server runs the thread of a request until it has answered: each step
\* is taken once it can be, and the call of the pipeline, the one step of
\* position "extracted", comes to its end
SpecOneUpload ==
    /\ InitOneUpload
    /\ [][NextOneUpload]_vars
    /\ WF_vars(UploadSave(1))
    /\ WF_vars(UploadExtract(1))
    /\ []<>(threads[1].pc # "extracted")
    /\ WF_vars(UploadBuild(1))
    /\ WF_vars(UploadExists(1))
    /\ WF_vars(UploadRemove(1))

(***************************************************************************)
(* Properties.                                                             *)
(***************************************************************************)
Returned == pc \in {"analyzed", "predicted"}
\* the record in analysis_result was built by the primary path of analyze_dpr
PrimaryRecord == Returned /\ ~PrimaryRaises(text_content)
\* the record in analysis_result was built by generate_fallback_analysis
FallbackRecord == Returned /\ PrimaryRaises(text_content)

SectionResultKeys ==
    {"score", "completeness", "quality", "keyword_matches", "issues", "recommendations"}
AnalysisRecordKeys ==
    {"filename", "analyzed_at", "overall_score", "completeness_percentage",
     "sections_found", "total_sections", "section_analyses", "quality_scores",
     "document_stats"}

\* C1: analyze_dpr never lets an exception escape, whatever the text and
\* whichever libraries import: it returns a record.
C1_NeverPropagates == raised = "none" /\ pc # "raised"

\* C2: every record of the fallback analysis has all AnalysisRecord keys, and
\* each of its 10 section results has all SectionResult keys with score,
\* completeness and quality within [0,100].
C2_FallbackInvariants ==
    FallbackRecord =>
        /\ DOMAIN analysis_result = AnalysisRecordKeys
        /\ DOMAIN analysis_result.section_analyses = Sections
        /\ \A s \in Sections :
             LET r == analysis_result.section_analyses[s]
             IN  /\ DOMAIN r = SectionResultKeys
                 /\ r.score \in 0..100
                 /\ r.completeness \in 0..100
                 /\ r.quality \in 0..100

\* C7: in every record analyze_dpr returns, by either path, sections_found is
\* the number of sections with completeness > 30 and completeness_percentage
\* is exactly 100 * sections_found / 10.
C7_SectionsFoundConsistent ==
    Returned =>
        /\ analysis_result.sections_found =
             Cardinality({ s \in Sections :
                             analysis_result.section_analyses[s].completeness > 30 })
        /\ analysis_result.completeness_percentage * 10
             = 1000 * analysis_result.sections_found

\* C4: every SectionResult of analyze_section has score, completeness and
\* quality within [0,100] and keyword_matches >= 0, also when no keyword
\* of the section occurs in the text.
C4_SectionRanges ==
    PrimaryRecord =>
        \A s \in Sections :
            LET r == analysis_result.section_analyses[s]
            IN  /\ r.score >= 0 /\ r.score <= 100
                /\ r.completeness >= 0 /\ r.completeness <= 100
                /\ r.quality >= 0 /\ r.quality <= 100
                /\ r.keyword_matches >= 0

\* a section without any keyword sits at the floor while another is capped
C4_Witness ==
    /\ PrimaryRecord
    /\ \E s \in Sections :
         /\ analysis_result.section_analyses[s].keyword_matches = 0
         /\ analysis_result.section_analyses[s].score = 30
         /\ analysis_result.section_analyses[s].completeness = 20
    /\ \E s \in Sections : analysis_result.section_analyses[s].score > 80

\* C5: with k the keyword count of a section, k >= 5 gives score
\* min(90, 60+3k) and completeness min(95, 70+2k); 2 <= k < 5 gives 50+8k
\* and 50+10k; k < 2 gives max(30, 15k) and max(20, 20k).  k = 6 gives score
\* 78; k = 1 gives score 30 and completeness 20.
C5_ScoreTiers ==
    PrimaryRecord =>
        \A s \in Sections :
            LET r == analysis_result.section_analyses[s]
                k == r.keyword_matches
            IN  /\ k >= 5 => /\ r.score = (IF 60 + 3 * k < 90 THEN 60 + 3 * k ELSE 90)
                             /\ r.completeness = (IF 70 + 2 * k < 95 THEN 70 + 2 * k ELSE 95)
                /\ (k >= 2 /\ k < 5) => (r.score = 50 + 8 * k /\ r.completeness = 50 + 10 * k)
                /\ k < 2 => /\ r.score = (IF 15 * k > 30 THEN 15 * k ELSE 30)
                            /\ r.completeness = (IF 20 * k > 20 THEN 20 * k ELSE 20)
                /\ k = 6 => r.score = 78
                /\ k = 1 => (r.score = 30 /\ r.completeness = 20)

\* one record shows the three tiers: k = 1, k = 3 and k = 6
C5_Witness ==
    /\ PrimaryRecord
    /\ \E s \in Sections : /\ analysis_result.section_analyses[s].keyword_matches = 6
                           /\ analysis_result.section_analyses[s].score = 78
    /\ \E s \in Sections : /\ analysis_result.section_analyses[s].keyword_matches = 3
                           /\ analysis_result.section_analyses[s].score = 74
    /\ \E s \in Sections : /\ analysis_result.section_analyses[s].keyword_matches = 1
                           /\ analysis_result.section_analyses[s].score = 30
                           /\ analysis_result.section_analyses[s].completeness = 20

\* C6: the catalog weights sum to 100, and in the primary path overall_score
\* is the weighted sum of the section scores rounded to one decimal: it lies
\* in [0,100], between the least and the greatest section score, and equals
\* s within 0.1 when every section scores s.
C6_WeightedAverage ==
    /\ SumSeq([ i \in 1..Len(SectionOrder) |-> section_weights[SectionOrder[i]] ]) = 100
    /\ PrimaryRecord =>
         LET sa == analysis_result.section_analyses
             overall == analysis_result.overall_score
             scores == { sa[s].score : s \in Sections }
             \* the sum of score * weight/100, in thousandths
             total == 10 * SumSeq([ i \in 1..Len(SectionOrder) |->
                                      sa[SectionOrder[i]].score
                                        * section_weights[SectionOrder[i]] ])
         IN  /\ overall >= 0 /\ overall <= 1000
             /\ 100 * overall - total <= 50 /\ total - 100 * overall <= 50
             /\ \E lo \in scores : 10 * lo <= overall
             /\ \E hi \in scores : overall <= 10 * hi
             /\ \A x \in scores :
                  scores = {x} => (overall - 10 * x <= 1 /\ 10 * x - overall <= 1)

\* sections score differently and overall_score lies strictly between them
C6_Witness ==
    /\ PrimaryRecord
    /\ \E a, b \in Sections :
         /\ 10 * analysis_result.section_analyses[a].score < analysis_result.overall_score
         /\ analysis_result.overall_score < 10 * analysis_result.section_analyses[b].score

\* C3: predict_risks never lets an exception escape; its bundle always has
\* overall_risk, risk_predictions and risk_summary, and when the prediction
\* raised it is the fallback bundle: 5 categories with a probability in
\* [25,75] each and the overall level Medium.
C3_PredictNeverPropagates ==
    pc = "predicted" =>
        /\ raised = "none"
        /\ {"overall_risk", "risk_predictions", "risk_summary"} \subseteq DOMAIN risk_analysis
        /\ DOMAIN risk_analysis.risk_predictions = RiskCategories
        /\ PredictionRaises(analysis_result) =>
             /\ \A c \in RiskCategories :
                  /\ risk_analysis.risk_predictions[c].probability >= 250
                  /\ risk_analysis.risk_predictions[c].probability <= 750
             /\ risk_analysis.overall_risk.level = "Medium"

\* a None record was given and the fallback bundle came back, with both ends
\* of the range drawn
C3_Witness ==
    /\ pc = "predicted"
    /\ IsNone(analysis_result)
    /\ risk_analysis.risk_summary.text = "Fallback risk assessment - manual review recommended"
    /\ \E c \in RiskCategories : risk_analysis.risk_predictions[c].probability = 250
    /\ \E c \in RiskCategories : risk_analysis.risk_predictions[c].probability = 750

\* the driver section and the factor (in tenths) the claim C8 names per category
C8_Drivers ==
    [ c \in RiskCategories |->
        CASE c = "Budget Overrun Risk" -> <<"Means of Finance", 5>>
          [] c = "Timeline Delay Risk" -> <<"Time Frame", 6>>
          [] c = "Technical Implementation Risk" -> <<"Technology Issues", 7>>
          [] c = "Compliance Risk" -> <<"Legal Framework", 4>>
          [] c = "Resource Availability Risk" -> <<"Management Arrangements", 5>> ]

\* the record carries an overall_score and a score for each driver section
C8_Scored ==
    /\ ~PredictionRaises(analysis_result)
    /\ {"overall_score", "section_analyses"} \subseteq DOMAIN analysis_result
    /\ \A c \in RiskCategories :
         /\ C8_Drivers[c][1] \in DOMAIN analysis_result.section_analyses
         /\ "score" \in DOMAIN analysis_result.section_analyses[C8_Drivers[c][1]]

\* C8: without the fallback bundle, each category's probability is
\* max(0, 100 - overall_score) + w * (100 - driver score) clamped to [15,85]
\* for the driver and w of the category, so it lies in [15,85]; overall_score
\* 78 with Means of Finance at 75 gives Budget Overrun 34.5 at level Low.
C8_RuleFormula ==
    (pc = "predicted" /\ C8_Scored) =>
        /\ \A c \in RiskCategories :
             LET overall == analysis_result.overall_score
                 driver == analysis_result.section_analyses[C8_Drivers[c][1]].score
                 base == IF 1000 - overall > 0 THEN 1000 - overall ELSE 0
                 sum == base + C8_Drivers[c][2] * (100 - driver)
                 p == risk_analysis.risk_predictions[c].probability
             IN  /\ p = (IF sum < 150 THEN 150 ELSE IF sum > 850 THEN 850 ELSE sum)
                 /\ p >= 150 /\ p <= 850
        /\ (analysis_result.overall_score = 780
              /\ analysis_result.section_analyses["Means of Finance"].score = 75) =>
             /\ risk_analysis.risk_predictions["Budget Overrun Risk"].probability = 345
             /\ risk_analysis.risk_predictions["Budget Overrun Risk"].level = "Low"

\* scenario D happened, next to a category clamped at 85 and with distinct
\* factors at work on equal driver scores
C8_Witness ==
    /\ pc = "predicted" /\ C8_Scored
    /\ analysis_result.overall_score = 780
    /\ analysis_result.section_analyses["Means of Finance"].score = 75
    /\ risk_analysis.risk_predictions["Budget Overrun Risk"].probability = 345
    /\ analysis_result.section_analyses["Time Frame"].score = 0
    /\ analysis_result.section_analyses["Technology Issues"].score = 0
    /\ risk_analysis.risk_predictions["Timeline Delay Risk"].probability = 820
    /\ risk_analysis.risk_predictions["Technical Implementation Risk"].probability = 850

\* C9: in every RiskResult of predict_risks the level follows from the
\* reported probability: High iff it is >= 60, Medium iff it is in [40,60),
\* Low iff it is < 40; severity equals level.
C9_LevelFromReported ==
    pc = "predicted" =>
        \A c \in RiskCategories :
            LET r == risk_analysis.risk_predictions[c]
            IN  /\ r.level = "High" <=> r.probability >= 600
                /\ r.level = "Medium" <=> (r.probability >= 400 /\ r.probability < 600)
                /\ r.level = "Low" <=> r.probability < 400
                /\ r.severity = r.level

\* C10: with h, m, l the numbers of High, Medium, Low categories,
\* _calculate_overall_risk gives weighted = (3h+2m+l)/5, level High if
\* weighted >= 2.5, Medium if >= 1.5, else Low, and score
\* round(100*weighted/3, 1); 4 High and 1 Low give High and 86.7.
C10_OverallRisk ==
    (pc = "predicted" /\ ~PredictionRaises(analysis_result)) =>
        LET rp == risk_analysis.risk_predictions
            h == Cardinality({ c \in RiskCategories : rp[c].level = "High" })
            m == Cardinality({ c \in RiskCategories : rp[c].level = "Medium" })
            l == Cardinality({ c \in RiskCategories : rp[c].level = "Low" })
            o == risk_analysis.overall_risk
            \* 5 * weighted
            w5 == 3 * h + 2 * m + l
        IN  /\ h + m + l = 5
            /\ o.level = (IF 2 * w5 >= 25 THEN "High"
                          ELSE IF 2 * w5 >= 15 THEN "Medium" ELSE "Low")
            \* o.score / 10 is the one-decimal number nearest to 100 * w5 / 15
            /\ 2 * (15 * o.score - 1000 * w5) <= 15
            /\ 2 * (1000 * w5 - 15 * o.score) <= 15
            /\ (h = 4 /\ l = 1) => (o.level = "High" /\ o.score = 867)

\* 4 categories came out High and 1 Low
C10_Witness ==
    /\ pc = "predicted" /\ ~PredictionRaises(analysis_result)
    /\ Cardinality({ c \in RiskCategories :
                       risk_analysis.risk_predictions[c].level = "High" }) = 4
    /\ Cardinality({ c \in RiskCategories :
                       risk_analysis.risk_predictions[c].level = "Low" }) = 1
    /\ risk_analysis.overall_risk.score = 867

\* rank of a recommendation in the order sections, overall, technical
CategoryRank(rec) ==
    IF rec.category = "Overall Quality" THEN 2
    ELSE IF rec.category = "Technical Feasibility" THEN 3
    ELSE 1

\* C11: generate_recommendations returns at most 5 entries: first the
\* per-section entries in ascending order of section score, then the Overall
\* Quality entry if any, then the Technical Feasibility entry if any.
C11_RecommendationOrder ==
    pc = "recommended" =>
        LET recs == recommendations
            score(i) == analysis_result.section_analyses[recs[i].category].score
        IN  /\ Len(recs) <= 5
            /\ \A i, j \in 1..Len(recs) :
                 i < j =>
                   /\ CategoryRank(recs[i]) <= CategoryRank(recs[j])
                   /\ CategoryRank(recs[i]) > 1 => CategoryRank(recs[i]) < CategoryRank(recs[j])
                   /\ CategoryRank(recs[j]) = 1 =>
                        /\ recs[i].category # recs[j].category
                        /\ score(i) <= score(j)

\* five entries: three sections of different scores out of four or more low
\* ones, then the overall and the technical entry
C11_Witness ==
    /\ pc = "recommended"
    /\ Len(recommendations) = 5
    /\ Len(LowScoring(analysis_result.section_analyses)) >= 4
    /\ analysis_result.section_analyses[recommendations[1].category].score
         < analysis_result.section_analyses[recommendations[3].category].score
    /\ recommendations[4].category = "Overall Quality"
    /\ recommendations[5].category = "Technical Feasibility"

\* C17: the section entries are the (at most 3) lowest sections among those
\* of score < 65, in ascending score order, each High if its score < 50 and
\* Medium otherwise; one High Overall Quality entry exists iff overall_score
\* < 70 and one Medium Technical Feasibility entry iff the Technology Issues
\* score < 70.
C17_Selection ==
    ( /\ pc = "recommended"
      /\ {"overall_score", "section_analyses"} \subseteq DOMAIN analysis_result
      /\ "Technology Issues" \in DOMAIN analysis_result.section_analyses ) =>
        LET recs == recommendations
            sa == analysis_result.section_analyses
            Low == { s \in DOMAIN sa : sa[s].score < 65 }
            at == { i \in 1..Len(recs) : recs[i].category \in DOMAIN sa }
            kept == { recs[i].category : i \in at }
            overall == { i \in 1..Len(recs) : recs[i].category = "Overall Quality" }
            technical == { i \in 1..Len(recs) : recs[i].category = "Technical Feasibility" }
        IN  /\ kept \subseteq Low
            /\ Cardinality(at) = Cardinality(kept)
            /\ Cardinality(kept) = Min(3, Cardinality(Low))
            /\ \A k \in kept, s \in Low \ kept : sa[k].score <= sa[s].score
            /\ \A i, j \in at : i < j => sa[recs[i].category].score <= sa[recs[j].category].score
            /\ \A i \in at :
                 recs[i].priority = (IF sa[recs[i].category].score < 50 THEN "High" ELSE "Medium")
            /\ Cardinality(overall) = (IF analysis_result.overall_score < 700 THEN 1 ELSE 0)
            /\ \A i \in overall : recs[i].priority = "High"
            /\ Cardinality(technical) = (IF sa["Technology Issues"].score < 70 THEN 1 ELSE 0)
            /\ \A i \in technical : recs[i].priority = "Medium"
            /\ at \cup overall \cup technical = 1..Len(recs)

\* four or more sections below 65 of which a High one (below 50) and a Medium
\* one (exactly 50) are kept and one of score 64 is left out; overall_score
\* is exactly 70 and brings no entry, the Technology Issues score does
C17_Witness ==
    /\ pc = "recommended"
    /\ "section_analyses" \in DOMAIN analysis_result
    /\ "Technology Issues" \in DOMAIN analysis_result.section_analyses
    /\ analysis_result.overall_score = 700
    /\ Len(recommendations) = 4
    /\ recommendations[1].priority = "High"
    /\ recommendations[3].priority = "Medium"
    /\ analysis_result.section_analyses[recommendations[3].category].score = 50
    /\ \E s \in DOMAIN analysis_result.section_analyses :
         /\ analysis_result.section_analyses[s].score = 64
         /\ \A i \in 1..4 : recommendations[i].category # s
    /\ recommendations[4].category = "Technical Feasibility"

\* the second run has returned from analyze_dpr / from predict_risks
AnalyzedAgain == run = "second" /\ pc \in {"analyzed", "predicted"}
PredictedAgain == run = "second" /\ pc = "predicted"

Missing == filepath \notin DOMAIN files
Unsupported == ~Missing /\ Ext(filepath) \notin {".pdf", ".docx", ".doc", ".txt"}
EmptyFile ==
    /\ ~Missing
    /\ Ext(filepath) = ".txt"
    /\ files[filepath].readable
    /\ Blank(files[filepath].text)
Undecodable ==
    /\ ~Missing
    /\ Ext(filepath) = ".txt"
    /\ files[filepath].readable
    /\ ~files[filepath].utf8
\* no available backend for the extension gets any text out of the file
BackendsFail ==
    /\ ~Missing
    /\ LET f == files[filepath]
       IN  CASE Ext(filepath) = ".pdf" ->
                  \/ /\ PDFPLUMBER_AVAILABLE => f.plumber \in {"blank", "raises"}
                     /\ PDF_AVAILABLE => f.pypdf2 \in {"blank", "raises"}
                  \/ /\ PDFPLUMBER_AVAILABLE => f.plumber \in {"raises", "raises_late"}
                     /\ PDF_AVAILABLE => f.pypdf2 = "raises"
             [] Ext(filepath) \in {".docx", ".doc"} ->
                  DOCX_AVAILABLE => f.docx \in {"blank", "raises"}
             [] Ext(filepath) = ".txt" -> ~f.readable
             [] OTHER -> FALSE

NonEmptyText(x) == x = SampleDocument \/ ( x.doc = "file" /\ ~Blank(x.text) )

BundleKeys == {"analysis_id", "file_info", "analysis", "risks", "recommendations"}
RisksKeys == {"overall_risk", "risk_predictions", "risk_summary"}

\* C13: every bundle upload_file returns with a success response, from the
\* pipeline or from the demo data, has the keys analysis_id, file_info,
\* analysis, risks and recommendations, and its risks have the keys
\* overall_risk, risk_predictions and risk_summary.
C13_BundleKeys ==
    ( pc = "responded" /\ response.status = 200 ) =>
        /\ BundleKeys \subseteq DOMAIN response.body
        /\ RisksKeys \subseteq DOMAIN response.body.risks

(***************************************************************************)
(* C18: when the models were trained at construction, the probability of   *)
(* every category in the bundle of a record that predict_risks can read is *)
(* the answer of that category's classifier (100 times the positive-class  *)
(* probability, rounded to one decimal) with the level of that answer, and *)
(* not the value of the rule formula.                                      *)
(***************************************************************************)
ModelBased == ML_AVAILABLE /\ models = "trained"

C18_ClassifierProbability ==
    ( pc = "predicted" /\ ModelBased /\ ~PredictionRaises(analysis_result) ) =>
        \A c \in RiskCategories :
            risk_analysis.risk_predictions[c] = MlRisk(c, classifier, fp.tieUp)

(***************************************************************************)
(* C19: on every record of analyze_dpr, primary or fallback, and on        *)
(* records that miss entries, _extract_features returns 17 values: the     *)
(* overall score (75 if missing), the completeness percentage (80), the    *)
(* scores of the 10 sections in catalog order (70), the quality scores in  *)
(* the order data_accuracy, completeness, technical_viability, compliance, *)
(* budget_realism (70), each divided by 100, and every value is in [0,1].  *)
(***************************************************************************)
QualityOrder ==
    << "data_accuracy", "completeness", "technical_viability", "compliance",
       "budget_realism" >>

C19_FeatureVector ==
    pc = "features" =>
        LET section_analyses == Get(analysis_result, "section_analyses", <<>>)
            quality_scores == Get(analysis_result, "quality_scores", <<>>)
        IN  /\ Len(features) = 17
            /\ features[1] = Get(analysis_result, "overall_score", 750)
            /\ features[2] = Get(analysis_result, "completeness_percentage", 800)
            /\ \A i \in 1..10 :
                  features[2 + i] =
                      10 * Get(Get(section_analyses, SectionOrder[i], <<>>), "score", 70)
            /\ \A i \in 1..5 :
                  features[12 + i] = Get(quality_scores, QualityOrder[i], 700)
            /\ \A i \in 1..Len(features) : features[i] >= 0 /\ features[i] <= 1000

C19_Witness ==
    /\ pc = "features"
    /\ "section_analyses" \in DOMAIN analysis_result
    /\ DOMAIN analysis_result.section_analyses = Sections
    /\ features[1] # 750
    /\ \E i \in 1..10 : features[2 + i] > 700
    /\ \E i \in 1..10 : features[2 + i] = 300
    /\ features[17] # 700

(***************************************************************************)
(* C20: the readability of a record of the primary path is 90 when the     *)
(* average sentence length (words / sentences) is below 15, 75 when below  *)
(* 20, 60 when below 25 and 45 otherwise; it is 70 when the text toolkit   *)
(* is unavailable and 70 when the sentence count is 0.                     *)
(***************************************************************************)
ReadabilityBand(words, sentences) ==
    IF words < 15 * sentences THEN 900
    ELSE IF words < 20 * sentences THEN 750
    ELSE IF words < 25 * sentences THEN 600
    ELSE 450

C20_Readability ==
    ( PrimaryRecord /\ punkt_found ) =>
        LET readability == analysis_result.document_stats.readability
            sentences == BlobSentences(text_content)
        IN  IF ~NLP_AVAILABLE \/ sentences = 0 THEN readability = 700
            ELSE readability = ReadabilityBand(BlobWords(text_content), sentences)

\* C20 as amended: it is 70 when the text toolkit is unavailable or raises
\* while it tokenises, and 50 when the sentence count is 0
C20_ReadabilityFifty ==
    PrimaryRecord =>
        LET readability == analysis_result.document_stats.readability
            sentences == BlobSentences(text_content)
        IN  IF ~NLP_AVAILABLE \/ ~punkt_found THEN readability = 700
            ELSE IF sentences = 0 THEN readability = 500
            ELSE readability = ReadabilityBand(BlobWords(text_content), sentences)

C20_Witness ==
    /\ PrimaryRecord
    /\ NLP_AVAILABLE
    /\ punkt_found
    /\ BlobSentences(text_content) = 0
    /\ analysis_result.document_stats.readability = 500

(***************************************************************************)
(* C16: calls of analyze_dpr, predict_risks and generate_recommendations   *)
(* run by threads on shared instances need no coordination: no call writes *)
(* the attributes of the instances, no call changes the record it is       *)
(* given, and whatever the interleaving each call returns what it returns  *)
(* when it runs alone.                                                     *)
(***************************************************************************)
\* what the call of a frame returns when no other call runs with it, from
\* the generator state it started at
Alone(f) ==
    CASE f.call = "analyze_dpr" /\ ~PrimaryRaises(f.text) ->
           Stamp(PrimaryAnalysis(f.text, FileName, fp.tieUp), clock)
      [] f.call = "analyze_dpr" /\ PrimaryRaises(f.text) ->
           Stamp(generate_fallback_analysis(
                     FileName, f.text,
                     [ s \in Sections |->
                         Stream(f.start + (CHOOSE i \in 1..Len(SectionOrder) :
                                               SectionOrder[i] = s) - 1) ]), clock)
      [] f.call = "predict_risks" ->
           StampGenerated(predict_risks(f.given, ML_AVAILABLE, models = "trained",
                                        classifier, [ c \in RiskCategories |-> 2500 ], fp),
                          clock)
      [] OTHER -> generate_recommendations(f.given)

DrawsFromGenerator(f) == f.call = "analyze_dpr" /\ PrimaryRaises(f.text)

NothingWritten ==
    /\ instance = Constructed
    /\ \A t \in DOMAIN threads : shared_record = threads[t].given

C16_NoCoordination ==
    /\ NothingWritten
    /\ \A t \in DOMAIN threads :
         threads[t].pc = "done" => threads[t].result = Alone(threads[t])

\* C16 as amended: each call that takes no fallback path returns what it
\* returns when it runs alone
C16_NoCoordinationPrimary ==
    /\ NothingWritten
    /\ \A t \in DOMAIN threads :
         ( threads[t].pc = "done" /\ ~DrawsFromGenerator(threads[t]) ) =>
             threads[t].result = Alone(threads[t])

C16_Witness ==
    \E t1, t2 \in DOMAIN threads :
        /\ threads[t1].call = "predict_risks" /\ threads[t1].pc = "done"
        /\ threads[t2].call = "generate_recommendations" /\ threads[t2].pc = "done"
        /\ Len(threads[t2].result) = 5
        /\ "section_analyses" \in DOMAIN shared_record

(***************************************************************************)
(* C21: for every section, score and completeness, the issues are, in this *)
(* order, the low content quality issue iff score < 50, the incomplete     *)
(* coverage issue iff completeness < 60, and the issue of the category iff *)
(* the section is Risk Analysis or Means of Finance and score < 70; the    *)
(* recommendations are the one advice of the section iff score < 75 and    *)
(* empty otherwise.                                                        *)
(***************************************************************************)
IssueKinds ==
    << "Low content quality in", "Incomplete coverage of requirements", "category" >>

\* the kind of an issue: one of the two general ones or the one of a category
KindOf(issue) ==
    IF issue[1] \in {"Insufficient risk identification and mitigation strategies",
                     "Budget details and cost estimates need improvement"}
    THEN "category" ELSE issue[1]

C21_SectionFeedback ==
    ( ~IsNone(called) /\ ~IsNone(called.result) ) =>
        IF called.method = "identify_section_issues"
        THEN LET issues == called.result.issues
                 Has(kind) == \E i \in 1..Len(issues) : KindOf(issues[i]) = kind
                 Rank(kind) == CHOOSE r \in 1..3 : IssueKinds[r] = kind
             IN  /\ Has("Low content quality in") <=> called.score < 50
                 /\ Has("Incomplete coverage of requirements") <=> called.completeness < 60
                 /\ Has("category") <=>
                        ( called.section_name \in {"Risk Analysis", "Means of Finance"}
                          /\ called.score < 70 )
                 /\ \A i \in 1..Len(issues) :
                        /\ KindOf(issues[i]) \in {"Low content quality in",
                                                  "Incomplete coverage of requirements",
                                                  "category"}
                        /\ issues[i][2] = called.section_name
                        /\ \A j \in 1..Len(issues) :
                               i < j => Rank(KindOf(issues[i])) < Rank(KindOf(issues[j]))
        ELSE LET advice == called.result.recommendations
             IN  /\ called.score < 75 =>
                        advice = << <<"section_advice", called.section_name>> >>
                 /\ called.score >= 75 => advice = <<>>

C21_Witness ==
    /\ ~IsNone(called)
    /\ ~IsNone(called.result)
    /\ called.method = "identify_section_issues"
    /\ called.section_name = "Means of Finance"
    /\ called.score = 49
    /\ called.completeness = 59
    /\ Len(called.result.issues) = 3

(***************************************************************************)
(* C22: in the primary path technical_viability is min(100, score of       *)
(* Technology Issues + 10), compliance is 100 times the number of sections *)
(* with completeness above 40 divided by 10, and each of the five quality  *)
(* scores lies in [0,100].                                                 *)
(***************************************************************************)
C22_QualityScores ==
    PrimaryRecord =>
        LET section_analyses == analysis_result.section_analyses
            quality_scores == analysis_result.quality_scores
            tech_score == section_analyses["Technology Issues"].score
            present == Cardinality({ s \in Sections : section_analyses[s].completeness > 40 })
        IN  /\ quality_scores.technical_viability =
                   10 * (IF tech_score + 10 < 100 THEN tech_score + 10 ELSE 100)
            /\ quality_scores.compliance * 10 = 1000 * present
            /\ \A q \in DOMAIN quality_scores :
                   quality_scores[q] >= 0 /\ quality_scores[q] <= 1000
            /\ DOMAIN quality_scores =
                   {"data_accuracy", "completeness", "technical_viability", "compliance",
                    "budget_realism"}

C22_Witness ==
    /\ PrimaryRecord
    /\ analysis_result.section_analyses["Technology Issues"].score = 74
    /\ analysis_result.quality_scores.technical_viability = 840
    /\ analysis_result.quality_scores.compliance > 0
    /\ analysis_result.quality_scores.compliance < 1000
    /\ analysis_result.quality_scores.budget_realism = 1000


\* the categories a summary names
Named(summary) == { summary.names[i] : i \in DOMAIN summary.names }

\* the categories of a bundle whose level is High
HighCategories(bundle) ==
    { c \in DOMAIN bundle.risk_predictions : bundle.risk_predictions[c].level = "High" }

\* C23: the summary of a computed bundle names exactly the High categories,
\* each once, when there is one; with no High category it is the Medium
\* message when the overall level is Medium and the Low message otherwise.
C23_RiskSummary ==
    (pc = "predicted" /\ ~PredictionRaises(analysis_result)) =>
        LET summary == risk_analysis.risk_summary
            high == HighCategories(risk_analysis)
        IN  IF high # {}
            THEN /\ summary.text = "High priority risks identified in"
                 /\ Named(summary) = high
                 /\ Len(summary.names) = Cardinality(high)
            ELSE /\ summary.names = <<>>
                 /\ summary.text = IF risk_analysis.overall_risk.level = "Medium"
                                   THEN "Medium priority risks identified"
                                   ELSE "Low risk project profile"

\* a computed bundle of overall level Medium whose summary names two High
\* categories and leaves out a Low one
C23_Witness ==
    /\ pc = "predicted"
    /\ ~PredictionRaises(analysis_result)
    /\ risk_analysis.overall_risk.level = "Medium"
    /\ Len(risk_analysis.risk_summary.names) = 2
    /\ \E c \in RiskCategories : risk_analysis.risk_predictions[c].level = "Low"


\* the level the overall-risk formula gives for counts of High, Medium, Low
FormulaLevel(high, medium, low) ==
    LET weighted == 3 * high + 2 * medium + low
        total == high + medium + low
    IN  IF 2 * weighted >= 5 * total THEN "High"
        ELSE IF 2 * weighted >= 3 * total THEN "Medium" ELSE "Low"

\* C24: in every bundle predict_risks returns, the fallback bundle included,
\* the three counts of overall_risk are the numbers of High, Medium and Low
\* entries of risk_predictions, they sum to 5, and the overall level and
\* score are what the weighted formula gives for them.
C24_OverallDerived ==
    pc = "predicted" =>
        LET overall == risk_analysis.overall_risk
            high == Cardinality(HighCategories(risk_analysis))
            medium == Cardinality({ c \in RiskCategories :
                                     risk_analysis.risk_predictions[c].level = "Medium" })
            low == Cardinality({ c \in RiskCategories :
                                  risk_analysis.risk_predictions[c].level = "Low" })
        IN  /\ overall.high_risk_count = high
            /\ overall.medium_risk_count = medium
            /\ overall.low_risk_count = low
            /\ high + medium + low = 5
            /\ overall.level = FormulaLevel(high, medium, low)
            /\ 30 * overall.score >= (3 * high + 2 * medium + low) * 2000 - 15
            /\ 30 * overall.score <= (3 * high + 2 * medium + low) * 2000 + 15


\* C25: a section's score and completeness never decrease as its
\* keyword_count grows: of two sections of a primary record, the one with
\* at least as many keyword matches has at least the score and at least the
\* completeness of the other, in particular with 4 matches against 5.
C25_Monotone ==
    PrimaryRecord =>
        \A s1, s2 \in Sections :
            LET r1 == analysis_result.section_analyses[s1]
                r2 == analysis_result.section_analyses[s2]
            IN  r1.keyword_matches <= r2.keyword_matches =>
                    /\ r1.score <= r2.score
                    /\ r1.completeness <= r2.completeness


\* C30: in the primary path every section score is 30, 66, 74, 82 or an
\* integer from 75 to 90, so the overall score lies between 30.0 and 90.0;
\* the empty text gives keyword count 0 in every section, sections_found 0,
\* completeness_percentage 0.0 and the overall score 30.0.
C30_ScoreRange ==
    PrimaryRecord =>
        /\ \A s \in Sections :
              analysis_result.section_analyses[s].score \in {30, 66, 74, 82} \cup (75..90)
        /\ analysis_result.overall_score >= 300
        /\ analysis_result.overall_score <= 900
        /\ text_content = EmptyText =>
              /\ \A s \in Sections :
                    analysis_result.section_analyses[s].keyword_matches = 0
              /\ analysis_result.sections_found = 0
              /\ analysis_result.completeness_percentage = 0
              /\ analysis_result.overall_score = 300

\* the record of the empty text, at the minimum
C30_Witness ==
    /\ PrimaryRecord
    /\ text_content = EmptyText
    /\ analysis_result.overall_score = 300
    /\ analysis_result.sections_found = 0


\* the ids the rows of the three child tables reference
ChildIds ==
    { r.analysis_id : r \in db.analysis_sections \cup db.analysis_risks
                                \cup db.analysis_recommendations }

\* C29: after any sequence of store_analysis, delete_analysis and
\* cleanup_old_analyses calls, stores and deletes that fail among them, every
\* row of analysis_sections, analysis_risks and analysis_recommendations
\* references an id of analyses; an id whose store failed has no row in any
\* table; an id that was deleted has no row in any table.
C29_NoOrphans ==
    /\ ChildIds \subseteq DOMAIN db.analyses
    /\ \A id \in issued \ DOMAIN stored : id \notin DOMAIN db.analyses \cup ChildIds
    /\ \A id \in deleted : id \notin DOMAIN db.analyses \cup ChildIds
    /\ DOMAIN db.analyses = DOMAIN stored \ deleted

\* a store failed, a bundle with child rows was deleted by the clean-up,
\* and another bundle with child rows is still stored
C29_Witness ==
    /\ last.op = "cleanup_old_analyses"
    /\ last.result = 1
    /\ issued \ DOMAIN stored # {}
    /\ \E id \in deleted : "analysis" \in DOMAIN stored[id]
    /\ ChildIds # {}


\* C26: after an upload that ran the pipeline and was answered with its
\* bundle, get_analysis of the bundle's analysis_id, the look-up of the
\* report endpoint, returns that bundle and not None.
C26_ReportFindsBundle ==
    (pc = "responded" /\ MODULES_AVAILABLE /\ response.status = 200) =>
        get_analysis(db, response.body.analysis_id) = response.body


\* the requests that were answered with the bundle of the pipeline
Answered(t) ==
    /\ threads[t].pc = "responded"
    /\ threads[t].response.status = 200

\* C27: under any interleaving of concurrent uploads, two of the same file
\* name within one clock second among them, the analysis of each answered
\* request is the analysis of the text of the file that request uploaded,
\* and two requests never get the same analysis_id.
C27_OwnTextOwnId ==
    /\ \A t \in Uploads :
         Answered(t) =>
             LET body == threads[t].response.body
             IN  /\ "analyzed_at" \in DOMAIN body.analysis
                 /\ body.analysis =
                        Stamp(PrimaryAnalysis(threads[t].request.file.text,
                                              threads[t].filepath, fp.tieUp),
                              body.analysis.analyzed_at)
    /\ \A t1, t2 \in Uploads :
         (t1 # t2 /\ Answered(t1) /\ Answered(t2)) =>
             threads[t1].response.body.analysis_id # threads[t2].response.body.analysis_id

\* C28: once a request has saved its file, the file is eventually gone from
\* the upload folder, however the request ends.
C28_FileRemoved ==
    [](threads[1].pc = "saved" => <>(threads[1].filepath \notin DOMAIN files))

====
